---------------------------- MODULE Spec2Model ----------------------------
(***************************************************************************)
(* A model of the QR-Code-Tool payload codec (qr_processor.process_data,   *)
(* qr_decoder.decompress_data) and of the QR version selector              *)
(* (qr_processor.determine_optimal_qr_version).                            *)
(*                                                                         *)
(* Python values are modelled as follows:                                  *)
(*   str    a sequence of Unicode code points (naturals)                   *)
(*   bytes  a sequence of naturals in 0..255                               *)
(*   a call's outcome  a record [kind, val]: kind "str" (a string was      *)
(*          returned, val), "none" (None was returned) or "raise" (an      *)
(*          exception left the function)                                   *)
(***************************************************************************)
EXTENDS Integers, Sequences, FiniteSets, TLC

(***************************************************************************)
(* Sequences and bits                                                      *)
(***************************************************************************)

Drop(s, n) == SubSeq(s, n + 1, Len(s))

Take(s, n) == SubSeq(s, 1, n)

Repeat(c, n) == [i \in 1..n |-> c]

Min(a, b) == IF a < b THEN a ELSE b

\* The concatenation of ss[lo..hi], halving the range.
RECURSIVE ConcatRange(_, _, _)
ConcatRange(ss, lo, hi) ==
    IF lo > hi THEN << >>
    ELSE IF lo = hi THEN ss[lo]
    ELSE LET mid == (lo + hi) \div 2
         IN  ConcatRange(ss, lo, mid) \o ConcatRange(ss, mid + 1, hi)

Concat(ss) == ConcatRange(ss, 1, Len(ss))

\* Bitwise exclusive or of two naturals.
RECURSIVE Xor(_, _)
Xor(a, b) ==
    IF a = 0 THEN b
    ELSE IF b = 0 THEN a
    ELSE ((a + b) % 2) + 2 * Xor(a \div 2, b \div 2)

\* n as k bytes, least significant first / most significant first.
RECURSIVE BytesLE(_, _)
BytesLE(n, k) == IF k = 0 THEN << >> ELSE <<n % 256>> \o BytesLE(n \div 256, k - 1)

RECURSIVE BytesBE(_, _)
BytesBE(n, k) == IF k = 0 THEN << >> ELSE BytesBE(n \div 256, k - 1) \o <<n % 256>>

RECURSIVE FromBE(_)
FromBE(bs) ==
    IF bs = << >> THEN 0 ELSE 256 * FromBE(Take(bs, Len(bs) - 1)) + bs[Len(bs)]

RECURSIVE FromLE(_)
FromLE(bs) == IF bs = << >> THEN 0 ELSE bs[1] + 256 * FromLE(Tail(bs))

(***************************************************************************)
(* The outcome of a call                                                   *)
(***************************************************************************)

Str(s) == [kind |-> "str", val |-> s]

None == [kind |-> "none", val |-> << >>]

Raise == [kind |-> "raise", val |-> << >>]

\* The result of an operation that may fail: ok, and its value when ok.
Ok(v) == [ok |-> TRUE, val |-> v]

Fail == [ok |-> FALSE, val |-> << >>]

(***************************************************************************)
(* UTF-8: str.encode('utf-8'), bytes.decode('utf-8'),                      *)
(* bytes.decode('utf-8', errors='replace')                                 *)
(***************************************************************************)

IsSurrogate(cp) == cp >= 55296 /\ cp <= 57343

utf8_char(cp) ==
    IF cp < 128 THEN <<cp>>
    ELSE IF cp < 2048 THEN <<192 + (cp \div 64), 128 + (cp % 64)>>
    ELSE IF cp < 65536
         THEN <<224 + (cp \div 4096), 128 + ((cp \div 64) % 64), 128 + (cp % 64)>>
    ELSE <<240 + (cp \div 262144), 128 + ((cp \div 4096) % 64),
           128 + ((cp \div 64) % 64), 128 + (cp % 64)>>

utf8_encode(s) == Concat([i \in 1..Len(s) |-> utf8_char(s[i])])

IsCont(b) == b >= 128 /\ b <= 191

\* The range allowed for the byte that follows lead byte b (CPython's decoder:
\* no overlong forms, no surrogates, nothing above U+10FFFF).
SecondOk(b, c) ==
    IF b = 224 THEN c >= 160 /\ c <= 191
    ELSE IF b = 237 THEN c >= 128 /\ c <= 159
    ELSE IF b = 240 THEN c >= 144 /\ c <= 191
    ELSE IF b = 244 THEN c >= 128 /\ c <= 143
    ELSE IsCont(c)

\* The number of continuation bytes lead byte b asks for; -1 for a byte that
\* cannot start a character.
Utf8Need(b) ==
    IF b < 128 THEN 0
    ELSE IF b >= 194 /\ b <= 223 THEN 1
    ELSE IF b >= 224 /\ b <= 239 THEN 2
    ELSE IF b >= 240 /\ b <= 244 THEN 3
    ELSE -1

\* The number of bytes after the lead byte bs[1] that continue it validly.
Utf8Good(bs) ==
    LET need == Utf8Need(bs[1])
        ok2 == Len(bs) >= 2 /\ SecondOk(bs[1], bs[2])
        ok3 == ok2 /\ Len(bs) >= 3 /\ IsCont(bs[3])
        ok4 == ok3 /\ Len(bs) >= 4 /\ IsCont(bs[4])
    IN  IF need >= 3 /\ ok4 THEN 3
        ELSE IF need >= 2 /\ ok3 THEN 2
        ELSE IF need >= 1 /\ ok2 THEN 1
        ELSE 0

Utf8Value(bs, need) ==
    IF need = 0 THEN bs[1]
    ELSE IF need = 1 THEN (bs[1] - 192) * 64 + (bs[2] - 128)
    ELSE IF need = 2
         THEN (bs[1] - 224) * 4096 + (bs[2] - 128) * 64 + (bs[3] - 128)
    ELSE (bs[1] - 240) * 262144 + (bs[2] - 128) * 4096
         + (bs[3] - 128) * 64 + (bs[4] - 128)

\* The decoder's units.  Every byte that is no continuation byte starts a
\* unit: itself and the continuation bytes that validly follow it.  A
\* continuation byte is inside a unit when the nearest byte before it that
\* is no continuation byte takes it in.
InUnit(bs, i) ==
    LET before == {p \in 1..(i - 1) : ~IsCont(bs[p])}
        p == CHOOSE q \in before : \A r \in before : r <= q
    IN  before # {} /\ i - p <= Utf8Good(Drop(bs, p - 1))

\* The unit starting at i is a character.
UnitOk(bs, i) ==
    LET need == Utf8Need(bs[i]) IN need >= 0 /\ Utf8Good(Drop(bs, i - 1)) = need

\* What byte i contributes: a character, U+FFFD for an invalid unit or a
\* stray continuation byte, nothing inside a unit.
Utf8Emit(bs, i) ==
    IF IsCont(bs[i]) THEN (IF InUnit(bs, i) THEN << >> ELSE <<65533>>)
    ELSE IF UnitOk(bs, i) THEN <<Utf8Value(Drop(bs, i - 1), Utf8Need(bs[i]))>>
    ELSE <<65533>>

\* bytes.decode('utf-8', errors='replace'): every maximal invalid part
\* becomes U+FFFD.
utf8_decode_replace(bs) == Concat([i \in 1..Len(bs) |-> Utf8Emit(bs, i)])

\* bytes.decode('utf-8'): UnicodeDecodeError on any invalid part.
utf8_decode(bs) ==
    IF \A i \in 1..Len(bs) : IF IsCont(bs[i]) THEN InUnit(bs, i) ELSE UnitOk(bs, i)
    THEN Ok(utf8_decode_replace(bs))
    ELSE Fail

(***************************************************************************)
(* Base64: base64.b64encode, base64.b64decode                              *)
(***************************************************************************)

\* The character of the 6-bit value v in the standard alphabet.
B64Char(v) ==
    IF v < 26 THEN 65 + v
    ELSE IF v < 52 THEN 97 + (v - 26)
    ELSE IF v < 62 THEN 48 + (v - 52)
    ELSE IF v = 62 THEN 43
    ELSE 47

IsB64Char(c) ==
    \/ c >= 65 /\ c <= 90
    \/ c >= 97 /\ c <= 122
    \/ c >= 48 /\ c <= 57
    \/ c = 43
    \/ c = 47

B64Value(c) ==
    IF c >= 65 /\ c <= 90 THEN c - 65
    ELSE IF c >= 97 /\ c <= 122 THEN c - 97 + 26
    ELSE IF c >= 48 /\ c <= 57 THEN c - 48 + 52
    ELSE IF c = 43 THEN 62
    ELSE 63

\* The 4 characters of a group of 1 to 3 bytes.
B64Group(bs) ==
    IF Len(bs) = 1
    THEN <<B64Char(bs[1] \div 4), B64Char((bs[1] % 4) * 16), 61, 61>>
    ELSE IF Len(bs) = 2
         THEN <<B64Char(bs[1] \div 4),
                B64Char((bs[1] % 4) * 16 + (bs[2] \div 16)),
                B64Char((bs[2] % 16) * 4), 61>>
    ELSE <<B64Char(bs[1] \div 4),
           B64Char((bs[1] % 4) * 16 + (bs[2] \div 16)),
           B64Char((bs[2] % 16) * 4 + (bs[3] \div 64)),
           B64Char(bs[3] % 64)>>

b64encode(bs) ==
    Concat([g \in 1..((Len(bs) + 2) \div 3) |->
               B64Group(SubSeq(bs, 3 * g - 2, Min(3 * g, Len(bs))))])

\* The bytes of a group of 2 to 4 alphabet characters: 4 give 3 bytes, 3 give
\* 2 and 2 give 1.
B64GroupBytes(cs) ==
    LET a == B64Value(cs[1])
        b == B64Value(cs[2])
        b1 == a * 4 + (b \div 16)
    IN  IF Len(cs) = 2 THEN <<b1>>
        ELSE LET c == B64Value(cs[3])
                 b2 == (b % 16) * 16 + (c \div 4)
             IN  IF Len(cs) = 3 THEN <<b1, b2>>
                 ELSE <<b1, b2, (c % 4) * 64 + B64Value(cs[4])>>

\* The bytes of a run of alphabet characters (no padding); a last group of
\* one character gives nothing.
B64Bytes(cs) ==
    Concat([g \in 1..((Len(cs) + 3) \div 4) |->
               IF 4 * g - 3 = Len(cs) THEN << >>
               ELSE B64GroupBytes(SubSeq(cs, 4 * g - 3, Min(4 * g, Len(cs))))])

\* s without its trailing '=' characters: s.rstrip('=')
RStripPad(s) ==
    LET keep == {i \in 1..Len(s) : s[i] # 61}
    IN  IF keep = {} THEN << >>
        ELSE Take(s, CHOOSE i \in keep : \A j \in keep : j <= i)

\* base64.b64decode(s, validate=True): only alphabet characters, then the
\* padding that completes the last group of four.
b64decode_validate(s) ==
    LET body == RStripPad(s)
        pad == Len(s) - Len(body)
    IN  IF /\ \A i \in 1..Len(body) : IsB64Char(body[i])
           /\ Len(s) % 4 = 0
           /\ pad <= 2
           /\ Len(body) % 4 # 1
        THEN Ok(B64Bytes(body))
        ELSE Fail


IsPad(c) == c = 61

\* base64.b64decode(s) without validation: characters outside the alphabet
\* are discarded; a last group left incomplete by the padding present is an
\* error (binascii.Error, "Incorrect padding").
b64decode(s) ==
    LET cs == SelectSeq(s, IsB64Char)
        pad == Len(SelectSeq(s, IsPad))
    IN  IF Len(cs) % 4 = 0 THEN Ok(B64Bytes(cs))
        ELSE IF Len(cs) % 4 = 1 THEN Fail
        ELSE IF pad >= 4 - (Len(cs) % 4) THEN Ok(B64Bytes(cs))
        ELSE Fail

(***************************************************************************)
(* zlib and gzip.  A stream is the format's header, a DEFLATE body and the *)
(* format's checksum trailer.  The DEFLATE body written here is the stored *)
(* (uncompressed) block encoding, which every inflater accepts; the        *)
(* Huffman-coded block types are not modelled, and no input drawn below    *)
(* holds a complete one.                                                   *)
(***************************************************************************)

\* Adler-32 from sums p over bytes lo..hi of bs.
RECURSIVE AdlerRange(_, _, _, _)
AdlerRange(bs, p, lo, hi) ==
    IF hi < lo THEN p
    ELSE LET q == AdlerRange(bs, p, lo, hi - 1)
             a2 == (q.a + bs[hi]) % 65521
         IN  [a |-> a2, b |-> (q.b + a2) % 65521]

\* The sums a and b after the first k blocks of 16 bytes (the sums of one
\* block are worked out before the next block is entered).
RECURSIVE Adler(_, _)
Adler(bs, k) ==
    IF k = 0 THEN [a |-> 1, b |-> 0]
    ELSE LET p == Adler(bs, k - 1)
         IN  IF p.a >= 0 THEN AdlerRange(bs, p, 16 * k - 15, Min(16 * k, Len(bs))) ELSE p

\* Adler-32 as its 4 bytes, most significant first.
adler32(bs) ==
    LET p == Adler(bs, (Len(bs) + 15) \div 16) IN BytesBE(p.b, 2) \o BytesBE(p.a, 2)

\* CRC-32 (polynomial EDB88320), the 32-bit register kept as two 16-bit
\* halves [h, l].  CrcShift is k steps of the bitwise algorithm.
RECURSIVE CrcShift(_, _)
CrcShift(x, k) ==
    IF k = 0 THEN x
    ELSE LET h == x.h \div 2
             l == (x.l \div 2) + (x.h % 2) * 32768
         IN  CrcShift(IF x.l % 2 = 1
                      THEN [h |-> Xor(h, 60856), l |-> Xor(l, 33568)]
                      ELSE [h |-> h, l |-> l], k - 1)

\* The byte-wise table of the algorithm: the register after 8 steps from i.
CrcTable == [i \in 0..255 |-> CrcShift([h |-> 0, l |-> i], 8)]

\* The register c after bytes lo..hi of bs.
RECURSIVE CrcRange(_, _, _, _)
CrcRange(bs, c0, lo, hi) ==
    IF hi < lo THEN c0
    ELSE LET c == CrcRange(bs, c0, lo, hi - 1)
             t == CrcTable[Xor(c.l % 256, bs[hi])]
         IN  IF c.h >= 0 /\ c.l >= 0
             THEN [h |-> Xor(t.h, c.h \div 256),
                   l |-> Xor(t.l, (c.l \div 256) + (c.h % 256) * 256)]
             ELSE c
RECURSIVE Crc(_, _)
Crc(bs, k) ==
    IF k = 0 THEN [h |-> 65535, l |-> 65535]
    ELSE LET c == Crc(bs, k - 1)
         IN  IF c.h >= 0 /\ c.l >= 0
             THEN CrcRange(bs, c, 16 * k - 15, Min(16 * k, Len(bs)))
             ELSE c
crc32(bs) ==
    LET c == Crc(bs, (Len(bs) + 15) \div 16)
    IN  BytesLE(65535 - c.l, 2) \o BytesLE(65535 - c.h, 2)

\* One final stored block: BFINAL=1 BTYPE=00, LEN, NLEN (both little-endian),
\* the bytes.
deflate(bs) == <<1>> \o BytesLE(Len(bs), 2) \o BytesLE(65535 - Len(bs), 2) \o bs

\* Inflate a DEFLATE body: the bytes it holds and what follows it.
RECURSIVE inflate(_)
inflate(bs) ==
    IF bs = << >> THEN Fail
    ELSE LET final == bs[1] % 2 = 1
             btype == (bs[1] \div 2) % 4
         IN  IF btype # 0 \/ Len(bs) < 5 THEN Fail
             ELSE LET n == FromLE(SubSeq(bs, 2, 3))
                      nn == FromLE(SubSeq(bs, 4, 5))
                  IN  IF n + nn # 65535 \/ Len(bs) < 5 + n THEN Fail
                      ELSE IF final
                           THEN Ok([out |-> SubSeq(bs, 6, 5 + n), rest |-> Drop(bs, 5 + n)])
                      ELSE LET more == inflate(Drop(bs, 5 + n))
                           IN  IF more.ok
                               THEN Ok([out |-> SubSeq(bs, 6, 5 + n) \o more.val.out,
                                        rest |-> more.val.rest])
                               ELSE Fail

\* zlib.compress(data): header 78 9C (deflate, 32K window, default level),
\* the body, Adler-32 big-endian.
zlib_compress(bs) == <<120, 156>> \o deflate(bs) \o adler32(bs)

\* After the body: the Adler-32 of what it held.
zlib_trailer(body) ==
    IF ~body.ok THEN Fail
    ELSE IF Len(body.val.rest) < 4 THEN Fail
    ELSE IF Take(body.val.rest, 4) # adler32(body.val.out) THEN Fail
    ELSE Ok(body.val.out)

\* zlib.decompress(data): zlib.error on a bad header, a bad or truncated
\* body or a checksum mismatch; bytes after the stream are ignored.
zlib_decompress(bs) ==
    IF Len(bs) < 2 THEN Fail
    ELSE IF \/ bs[1] % 16 # 8
            \/ bs[1] \div 16 > 7
            \/ (bs[1] * 256 + bs[2]) % 31 # 0
            \/ (bs[2] \div 32) % 2 = 1
         THEN Fail
    ELSE zlib_trailer(inflate(Drop(bs, 2)))

\* gzip.compress(data): magic 1F 8B, method 8, no flags, the modification
\* time (the clock at the call), XFL 2, OS 255, the body, CRC-32 and length
\* little-endian.
gzip_compress(bs, mtime) ==
    <<31, 139, 8, 0>> \o BytesLE(mtime, 4) \o <<2, 255>> \o deflate(bs)
        \o crc32(bs) \o BytesLE(Len(bs), 4)

RECURSIVE gzip_decompress(_)

\* A member's bytes, then those of the members after it.
gzip_more(out, next) == IF next.ok THEN Ok(out \o next.val) ELSE Fail

\* After a member's body: its CRC-32 and length, then the next member.
gzip_trailer(body) ==
    IF ~body.ok THEN Fail
    ELSE IF Len(body.val.rest) < 8 THEN Fail
    ELSE IF \/ SubSeq(body.val.rest, 1, 4) # crc32(body.val.out)
            \/ SubSeq(body.val.rest, 5, 8) # BytesLE(Len(body.val.out), 4)
         THEN Fail
    ELSE IF Len(body.val.rest) = 8 THEN Ok(body.val.out)
    ELSE gzip_more(body.val.out, gzip_decompress(Drop(body.val.rest, 8)))

\* gzip.decompress(data): every member in turn; BadGzipFile, EOFError or
\* zlib.error on a bad header, body or trailer.  Members with header flags
\* (extra field, name, comment, header CRC) are not modelled.
gzip_decompress(bs) ==
    IF Len(bs) < 10 THEN Fail
    ELSE IF bs[1] # 31 \/ bs[2] # 139 \/ bs[3] # 8 \/ bs[4] # 0 THEN Fail
    ELSE gzip_trailer(inflate(Drop(bs, 10)))

(***************************************************************************)
(* JSON values (what json.loads and cbor2.loads return).  A value is a     *)
(* record [t, n, s, items]: t its type, n an int's value, s the code       *)
(* points of a str (the bytes of a bytes object), items a list's values or *)
(* a dict's [k, v] entries in insertion order.                             *)
(***************************************************************************)

VInt(n) == [t |-> "int", n |-> n, s |-> << >>, items |-> << >>]

VStr(s) == [t |-> "str", n |-> 0, s |-> s, items |-> << >>]

VList(items) == [t |-> "list", n |-> 0, s |-> << >>, items |-> items]

VDict(items) == [t |-> "dict", n |-> 0, s |-> << >>, items |-> items]

VTrue == [t |-> "true", n |-> 0, s |-> << >>, items |-> << >>]

VFalse == [t |-> "false", n |-> 0, s |-> << >>, items |-> << >>]

VNull == [t |-> "null", n |-> 0, s |-> << >>, items |-> << >>]

\* float('nan'), float('inf') and float('-inf'), named by the text json
\* writes for them: "NaN", "Infinity", "-Infinity".
VFloat(s) == [t |-> "float", n |-> 0, s |-> s, items |-> << >>]

NaN == <<78, 97, 78>>

Infinity == <<73, 110, 102, 105, 110, 105, 116, 121>>

\* A bytes object: cbor2 returns one for a byte string; json cannot write it.
VBytes(s) == [t |-> "bytes", n |-> 0, s |-> s, items |-> << >>]

\* cbor2's undefined and CBORSimpleValue objects; json cannot write them.
VOther == [t |-> "other", n |-> 0, s |-> << >>, items |-> << >>]

\* d[k] = v on a dict's entries: an existing key keeps its place.
DictPut(items, k, v) ==
    IF \E i \in 1..Len(items) : items[i].k = k
    THEN [i \in 1..Len(items) |->
             IF items[i].k = k THEN [k |-> k, v |-> v] ELSE items[i]]
    ELSE Append(items, [k |-> k, v |-> v])

\* A parser's result: the value and the text after it.
Parsed(v, rest) == [ok |-> TRUE, val |-> v, rest |-> rest]

NoParse == [ok |-> FALSE, val |-> VNull, rest |-> << >>]

(***************************************************************************)
(* json.loads.  Numbers are integers (the texts drawn below hold no '.',   *)
(* 'e' or 'E', so none has a fraction or an exponent) and the constants    *)
(* NaN, Infinity and -Infinity, which the default parse_constant accepts.  *)
(***************************************************************************)

IsJsonSpace(c) == c \in {32, 9, 10, 13}

IsDigit(c) == c >= 48 /\ c <= 57

RECURSIVE skip_ws(_)
skip_ws(s) == IF s # << >> /\ IsJsonSpace(s[1]) THEN skip_ws(Tail(s)) ELSE s

IsHex(c) == IsDigit(c) \/ (c >= 97 /\ c <= 102) \/ (c >= 65 /\ c <= 70)

HexValue(c) == IF IsDigit(c) THEN c - 48 ELSE IF c >= 97 THEN c - 87 ELSE c - 55

\* The character an escape letter stands for; -1 for no escape.
Unescape(c) ==
    IF c \in {34, 92, 47} THEN c
    ELSE IF c = 98 THEN 8
    ELSE IF c = 102 THEN 12
    ELSE IF c = 110 THEN 10
    ELSE IF c = 114 THEN 13
    ELSE IF c = 116 THEN 9
    ELSE -1

\* The number of backslashes in a row that end just before position i.
RECURSIVE SlashesBefore(_, _)
SlashesBefore(s, i) ==
    IF i > 1 /\ s[i - 1] = 92 THEN 1 + SlashesBefore(s, i - 1) ELSE 0

\* Position i starts an escape: a backslash after an even number of them.
EscapeAt(s, i) == s[i] = 92 /\ SlashesBefore(s, i) % 2 = 0

\* Position i is inside an escape that started before it.
InEscape(s, i) ==
    \/ i >= 2 /\ EscapeAt(s, i - 1)
    \/ \E k \in 2..5 : i - k >= 1 /\ EscapeAt(s, i - k) /\ s[i - k + 1] = 117

\* The escape at i is well formed.
EscapeOk(s, i) ==
    /\ i + 1 <= Len(s)
    /\ IF s[i + 1] = 117 THEN i + 5 <= Len(s) /\ \A j \in (i + 2)..(i + 5) : IsHex(s[j])
       ELSE Unescape(s[i + 1]) >= 0

EscapeValue(s, i) ==
    IF s[i + 1] = 117
    THEN HexValue(s[i + 2]) * 4096 + HexValue(s[i + 3]) * 256
         + HexValue(s[i + 4]) * 16 + HexValue(s[i + 5])
    ELSE Unescape(s[i + 1])

IsHighSurrogate(c) == c >= 55296 /\ c <= 56319

IsLowSurrogate(c) == c >= 56320 /\ c <= 57343

\* The \uXXXX escape at i holds a high surrogate and the escape after it a
\* low one: the two are read as one character.
PairAt(s, i) ==
    /\ i + 11 <= Len(s)
    /\ s[i + 1] = 117
    /\ IsHighSurrogate(EscapeValue(s, i))
    /\ s[i + 6] = 92
    /\ s[i + 7] = 117
    /\ \A j \in (i + 8)..(i + 11) : IsHex(s[j])
    /\ IsLowSurrogate(EscapeValue(s, i + 6))

PairValue(s, i) ==
    65536 + (EscapeValue(s, i) - 55296) * 1024 + (EscapeValue(s, i + 6) - 56320)

\* The characters position i of a string body stands for.
StringEmit(body, i) ==
    IF EscapeAt(body, i)
    THEN IF PairAt(body, i) THEN <<PairValue(body, i)>>
         ELSE IF i >= 7 /\ EscapeAt(body, i - 6) /\ PairAt(body, i - 6) THEN << >>
         ELSE <<EscapeValue(body, i)>>
    ELSE IF InEscape(body, i) THEN << >>
    ELSE <<body[i]>>

\* Position i of a string body is allowed: a well-formed escape, or a
\* character that is no control character.
StringGood(body, i) ==
    IF EscapeAt(body, i) THEN EscapeOk(body, i)
    ELSE InEscape(body, i) \/ body[i] >= 32

\* The position of the quote that closes the string s starts in: the first
\* one that is not escaped; 0 when there is none.
StringEnd(s) ==
    LET quotes == {i \in 1..Len(s) : s[i] = 34 /\ SlashesBefore(s, i) % 2 = 0}
    IN  IF quotes = {} THEN 0 ELSE CHOOSE i \in quotes : \A j \in quotes : i <= j

string_body(body, rest) ==
    IF \A i \in 1..Len(body) : StringGood(body, i)
    THEN Parsed(VStr(Concat([i \in 1..Len(body) |-> StringEmit(body, i)])), rest)
    ELSE NoParse

string_until(s, close) ==
    IF close = 0 THEN NoParse ELSE string_body(Take(s, close - 1), Drop(s, close))

\* The string after its opening quote.  A control character, a malformed
\* escape or a missing closing quote is an error.
parse_string(s) == string_until(s, StringEnd(s))

RECURSIVE parse_digits(_, _)
parse_digits(s, n) ==
    IF s # << >> /\ IsDigit(s[1]) THEN parse_digits(Tail(s), 10 * n + (s[1] - 48))
    ELSE Parsed(VInt(n), s)

\* (0|[1-9][0-9]*)
parse_natural(s) ==
    IF s = << >> \/ ~IsDigit(s[1]) THEN NoParse
    ELSE IF s[1] = 48 THEN Parsed(VInt(0), Tail(s))
    ELSE parse_digits(s, 0)

negated(p) == IF p.ok THEN Parsed(VInt(0 - p.val.n), p.rest) ELSE NoParse

\* -?(0|[1-9][0-9]*)
parse_number(s) == IF s[1] = 45 THEN negated(parse_natural(Tail(s))) ELSE parse_natural(s)

\* NaN, Infinity, -Infinity
parse_constant(s) ==
    IF Len(s) >= 3 /\ Take(s, 3) = NaN THEN Parsed(VFloat(NaN), Drop(s, 3))
    ELSE IF Len(s) >= 8 /\ Take(s, 8) = Infinity THEN Parsed(VFloat(Infinity), Drop(s, 8))
    ELSE IF Len(s) >= 9 /\ Take(s, 9) = <<45>> \o Infinity
         THEN Parsed(VFloat(<<45>> \o Infinity), Drop(s, 9))
    ELSE NoParse

\* The scanner tries a number first, then the constants.
number_or_constant(s, p) == IF p.ok THEN p ELSE parse_constant(s)

RECURSIVE parse_value(_)
RECURSIVE parse_items(_, _)
RECURSIVE parse_members(_, _)

\* After an item: ',' and more items, or ']'.
items_end(t, acc) ==
    IF t = << >> THEN NoParse
    ELSE IF t[1] = 44 THEN parse_items(Tail(t), acc)
    ELSE IF t[1] = 93 THEN Parsed(VList(acc), Tail(t))
    ELSE NoParse

items_value(p, acc) ==
    IF p.ok THEN items_end(skip_ws(p.rest), Append(acc, p.val)) ELSE NoParse

\* The items of an array after '[' or ',': a value, then ',' or ']'.
parse_items(s, acc) == items_value(parse_value(skip_ws(s)), acc)

\* After a member: ',' and more members, or '}'.
members_end(t, acc) ==
    IF t = << >> THEN NoParse
    ELSE IF t[1] = 44 THEN parse_members(Tail(t), acc)
    ELSE IF t[1] = 125 THEN Parsed(VDict(acc), Tail(t))
    ELSE NoParse

members_value(key, p, acc) ==
    IF p.ok THEN members_end(skip_ws(p.rest), DictPut(acc, key, p.val)) ELSE NoParse

members_colon(key, s, acc) ==
    IF s = << >> \/ s[1] # 58 THEN NoParse
    ELSE members_value(key, parse_value(skip_ws(Tail(s))), acc)

members_key(k, acc) ==
    IF k.ok THEN members_colon(k.val, skip_ws(k.rest), acc) ELSE NoParse

members_start(s, acc) ==
    IF s = << >> \/ s[1] # 34 THEN NoParse ELSE members_key(parse_string(Tail(s)), acc)

\* The members of an object after '{' or ',': "key" : value, then ',' or '}'.
parse_members(s, acc) == members_start(skip_ws(s), acc)

array_after_bracket(t) ==
    IF t # << >> /\ t[1] = 93 THEN Parsed(VList(<< >>), Tail(t)) ELSE parse_items(t, << >>)

object_after_brace(t) ==
    IF t # << >> /\ t[1] = 125 THEN Parsed(VDict(<< >>), Tail(t)) ELSE parse_members(t, << >>)

parse_value(s) ==
    IF s = << >> THEN NoParse
    ELSE IF s[1] = 34 THEN parse_string(Tail(s))
    ELSE IF s[1] = 91 THEN array_after_bracket(skip_ws(Tail(s)))
    ELSE IF s[1] = 123 THEN object_after_brace(skip_ws(Tail(s)))
    ELSE IF Len(s) >= 4 /\ Take(s, 4) = <<116, 114, 117, 101>> THEN Parsed(VTrue, Drop(s, 4))
    ELSE IF Len(s) >= 5 /\ Take(s, 5) = <<102, 97, 108, 115, 101>>
         THEN Parsed(VFalse, Drop(s, 5))
    ELSE IF Len(s) >= 4 /\ Take(s, 4) = <<110, 117, 108, 108>> THEN Parsed(VNull, Drop(s, 4))
    ELSE IF s[1] = 45 \/ IsDigit(s[1]) THEN number_or_constant(s, parse_number(s))
    ELSE parse_constant(s)

document(p) == IF p.ok /\ skip_ws(p.rest) = << >> THEN Ok(p.val) ELSE Fail

\* json.loads(text): one value between optional white space, nothing after
\* it; json.JSONDecodeError otherwise.
json_loads(s) == document(parse_value(skip_ws(s)))

(***************************************************************************)
(* json.dumps(value) and json.dumps(value, indent=4), ensure_ascii on      *)
(***************************************************************************)

HexDigit(d) == IF d < 10 THEN 48 + d ELSE 87 + d

\* \uXXXX, lower-case digits.
EscapeU(c) ==
    <<92, 117, HexDigit(c \div 4096), HexDigit((c \div 256) % 16),
      HexDigit((c \div 16) % 16), HexDigit(c % 16)>>

\* One character of a string; characters above U+FFFF are written as a
\* surrogate pair.
EscapeChar(c) ==
    IF c = 34 THEN <<92, 34>>
    ELSE IF c = 92 THEN <<92, 92>>
    ELSE IF c = 10 THEN <<92, 110>>
    ELSE IF c = 13 THEN <<92, 114>>
    ELSE IF c = 9 THEN <<92, 116>>
    ELSE IF c = 12 THEN <<92, 102>>
    ELSE IF c = 8 THEN <<92, 98>>
    ELSE IF c >= 32 /\ c <= 126 THEN <<c>>
    ELSE IF c < 65536 THEN EscapeU(c)
    ELSE EscapeU(55296 + ((c - 65536) \div 1024)) \o EscapeU(56320 + ((c - 65536) % 1024))

EscapeAll(s) == Concat([i \in 1..Len(s) |-> EscapeChar(s[i])])

json_string(s) == <<34>> \o EscapeAll(s) \o <<34>>

RECURSIVE Digits(_)
Digits(n) == IF n < 10 THEN <<48 + n>> ELSE Digits(n \div 10) \o <<48 + (n % 10)>>

json_int(n) == IF n < 0 THEN <<45>> \o Digits(0 - n) ELSE Digits(n)

\* A dict key as json writes it: a str as it is, an int, a bool and None as
\* their text; any other key is a TypeError.
json_key(k) ==
    IF k.t = "str" THEN Ok(json_string(k.s))
    ELSE IF k.t = "int" THEN Ok(json_string(json_int(k.n)))
    ELSE IF k.t = "true" THEN Ok(json_string(<<116, 114, 117, 101>>))
    ELSE IF k.t = "false" THEN Ok(json_string(<<102, 97, 108, 115, 101>>))
    ELSE IF k.t = "null" THEN Ok(json_string(<<110, 117, 108, 108>>))
    ELSE IF k.t = "float" THEN Ok(json_string(k.s))
    ELSE Fail

\* The line break and indentation before an item at nesting level lv; with
\* indent None (-1) items are separated by ", " on one line.
Newline(indent, lv) == IF indent < 0 THEN << >> ELSE <<10>> \o Repeat(32, indent * lv)

ItemSep(indent, lv) == IF indent < 0 THEN <<44, 32>> ELSE <<44>> \o Newline(indent, lv)

RECURSIVE dumps(_, _, _)
RECURSIVE dumps_items(_, _, _, _)
RECURSIVE dumps_members(_, _, _, _)

\* The items from the i-th on, each after its separator.
dumps_items(items, i, indent, lv) ==
    IF i > Len(items) THEN Ok(<< >>)
    ELSE LET d == dumps(items[i], indent, lv + 1)
             rest == dumps_items(items, i + 1, indent, lv)
         IN  IF d.ok /\ rest.ok
             THEN Ok((IF i = 1 THEN << >> ELSE ItemSep(indent, lv)) \o d.val \o rest.val)
             ELSE Fail

dumps_members(items, i, indent, lv) ==
    IF i > Len(items) THEN Ok(<< >>)
    ELSE LET k == json_key(items[i].k)
             d == dumps(items[i].v, indent, lv + 1)
             rest == dumps_members(items, i + 1, indent, lv)
         IN  IF k.ok /\ d.ok /\ rest.ok
             THEN Ok((IF i = 1 THEN << >> ELSE ItemSep(indent, lv))
                     \o k.val \o <<58, 32>> \o d.val \o rest.val)
             ELSE Fail

\* The text of value v at nesting level lv - 1; a TypeError (Fail) for a
\* value json cannot write.
dumps(v, indent, lv) ==
    IF v.t = "int" THEN Ok(json_int(v.n))
    ELSE IF v.t = "str" THEN Ok(json_string(v.s))
    ELSE IF v.t = "true" THEN Ok(<<116, 114, 117, 101>>)
    ELSE IF v.t = "false" THEN Ok(<<102, 97, 108, 115, 101>>)
    ELSE IF v.t = "null" THEN Ok(<<110, 117, 108, 108>>)
    ELSE IF v.t = "float" THEN Ok(v.s)
    ELSE IF v.t = "list"
         THEN IF v.items = << >> THEN Ok(<<91, 93>>)
              ELSE LET body == dumps_items(v.items, 1, indent, lv)
                   IN  IF body.ok
                       THEN Ok(<<91>> \o Newline(indent, lv) \o body.val
                               \o Newline(indent, lv - 1) \o <<93>>)
                       ELSE Fail
    ELSE IF v.t = "dict"
         THEN IF v.items = << >> THEN Ok(<<123, 125>>)
              ELSE LET body == dumps_members(v.items, 1, indent, lv)
                   IN  IF body.ok
                       THEN Ok(<<123>> \o Newline(indent, lv) \o body.val
                               \o Newline(indent, lv - 1) \o <<125>>)
                       ELSE Fail
    ELSE Fail

\* json.dumps(value)
json_dumps(v) == dumps(v, -1, 1)

\* json.dumps(value, indent=4)
json_dumps_indent4(v) == dumps(v, 4, 1)

(***************************************************************************)
(* CBOR: cbor2.dumps, cbor2.loads.  Modelled: integers, byte and text      *)
(* strings, arrays, maps (each of definite length), false, true, null,     *)
(* undefined, the simple values, and the half-precision floats NaN and     *)
(* +-Infinity.  Not modelled: tags, finite floats, indefinite lengths and  *)
(* the break code; process_data writes none of them for a json.loads value *)
(* without a fraction, and no byte drawn below starts one.                 *)
(***************************************************************************)

\* The head of an item: major type and argument in the shortest form.
cbor_head(major, n) ==
    IF n < 24 THEN <<major * 32 + n>>
    ELSE IF n < 256 THEN <<major * 32 + 24, n>>
    ELSE IF n < 65536 THEN <<major * 32 + 25>> \o BytesBE(n, 2)
    ELSE <<major * 32 + 26>> \o BytesBE(n, 4)

RECURSIVE cbor2_dumps(_)
RECURSIVE cbor_dump_items(_, _)
RECURSIVE cbor_dump_members(_, _)

cbor_dump_items(items, i) ==
    IF i > Len(items) THEN << >>
    ELSE cbor2_dumps(items[i]) \o cbor_dump_items(items, i + 1)

cbor_dump_members(items, i) ==
    IF i > Len(items) THEN << >>
    ELSE cbor2_dumps(items[i].k) \o cbor2_dumps(items[i].v)
         \o cbor_dump_members(items, i + 1)

cbor2_dumps(v) ==
    IF v.t = "int" THEN (IF v.n >= 0 THEN cbor_head(0, v.n) ELSE cbor_head(1, (0 - 1) - v.n))
    ELSE IF v.t = "bytes" THEN cbor_head(2, Len(v.s)) \o v.s
    ELSE IF v.t = "str"
         THEN LET bs == utf8_encode(v.s) IN cbor_head(3, Len(bs)) \o bs
    ELSE IF v.t = "list" THEN cbor_head(4, Len(v.items)) \o cbor_dump_items(v.items, 1)
    ELSE IF v.t = "dict" THEN cbor_head(5, Len(v.items)) \o cbor_dump_members(v.items, 1)
    ELSE IF v.t = "false" THEN <<244>>
    ELSE IF v.t = "true" THEN <<245>>
    ELSE IF v.t = "null" THEN <<246>>
    ELSE IF v.t = "float"
         THEN (IF v.s = NaN THEN <<249, 126, 0>>
               ELSE IF v.s = Infinity THEN <<249, 124, 0>>
               ELSE <<249, 252, 0>>)
    ELSE <<247>>

\* The argument of a head with additional information ai, and the bytes
\* after it: ai 28..31 is no length.
cbor_arg(ai, bs) ==
    LET k == IF ai < 24 THEN 0 ELSE IF ai = 24 THEN 1 ELSE IF ai = 25 THEN 2
             ELSE IF ai = 26 THEN 4 ELSE 8
    IN  IF ai > 27 \/ Len(bs) < k THEN [ok |-> FALSE, n |-> 0, rest |-> << >>]
        ELSE [ok |-> TRUE, n |-> IF ai < 24 THEN ai ELSE FromBE(Take(bs, k)),
              rest |-> Drop(bs, k)]

RECURSIVE cbor_item(_)
RECURSIVE cbor_items(_, _, _)
RECURSIVE cbor_members(_, _, _)

\* n more items of an array.
cbor_items(bs, n, acc) ==
    IF n = 0 THEN Parsed(VList(acc), bs)
    ELSE LET p == cbor_item(bs)
         IN  IF p.ok THEN cbor_items(p.rest, n - 1, Append(acc, p.val)) ELSE NoParse

\* n more key/value pairs of a map.
cbor_members(bs, n, acc) ==
    IF n = 0 THEN Parsed(VDict(acc), bs)
    ELSE LET k == cbor_item(bs)
             v == cbor_item(k.rest)
         IN  IF k.ok /\ v.ok THEN cbor_members(v.rest, n - 1, DictPut(acc, k.val, v.val))
             ELSE NoParse

\* The item at the start of bs: CBORDecodeError (NoParse) when the bytes
\* end early, a length is reserved or a text string is not UTF-8.
cbor_item(bs) ==
    IF bs = << >> THEN NoParse
    ELSE LET major == bs[1] \div 32
             ai == bs[1] % 32
             a == cbor_arg(ai, Tail(bs))
         IN  IF major = 7
             THEN IF ai = 20 THEN Parsed(VFalse, Tail(bs))
                  ELSE IF ai = 21 THEN Parsed(VTrue, Tail(bs))
                  ELSE IF ai = 22 THEN Parsed(VNull, Tail(bs))
                  ELSE IF ai <= 23 THEN Parsed(VOther, Tail(bs))
                  ELSE IF ai = 25 /\ a.ok /\ (a.n % 32768) >= 31744
                       THEN Parsed(VFloat(IF a.n % 32768 > 31744 THEN NaN
                                          ELSE IF a.n < 32768 THEN Infinity
                                          ELSE <<45>> \o Infinity), a.rest)
                  ELSE NoParse
             ELSE IF ~a.ok \/ major = 6 THEN NoParse
             ELSE IF major = 0 THEN Parsed(VInt(a.n), a.rest)
             ELSE IF major = 1 THEN Parsed(VInt((0 - 1) - a.n), a.rest)
             ELSE IF major = 2
                  THEN IF Len(a.rest) < a.n THEN NoParse
                       ELSE Parsed(VBytes(Take(a.rest, a.n)), Drop(a.rest, a.n))
             ELSE IF major = 3
                  THEN IF Len(a.rest) < a.n THEN NoParse
                       ELSE LET u == utf8_decode(Take(a.rest, a.n))
                            IN  IF u.ok THEN Parsed(VStr(u.val), Drop(a.rest, a.n))
                                ELSE NoParse
             ELSE IF major = 4 THEN cbor_items(a.rest, a.n, << >>)
             ELSE cbor_members(a.rest, a.n, << >>)

\* cbor2.loads(data): the first item; bytes after it are ignored.
cbor2_loads(bs) ==
    LET p == cbor_item(bs) IN IF p.ok THEN Ok(p.val) ELSE Fail

\* cbor2.dumps can write the value: no string in it holds a surrogate, which
\* str.encode('utf-8') refuses.
RECURSIVE cbor_encodable(_)
cbor_encodable(v) ==
    IF v.t = "str" THEN \A i \in 1..Len(v.s) : ~IsSurrogate(v.s[i])
    ELSE IF v.t = "list" THEN \A i \in 1..Len(v.items) : cbor_encodable(v.items[i])
    ELSE IF v.t = "dict"
         THEN \A i \in 1..Len(v.items) :
                  cbor_encodable(v.items[i].k) /\ cbor_encodable(v.items[i].v)
    ELSE TRUE

(***************************************************************************)
(* qr_processor.process_data                                               *)
(***************************************************************************)

\* Lines 58-73: gzip or zlib for those methods, then Base64.  mtime is the
\* clock gzip.compress reads.
compress_and_wrap(raw, method, mtime) ==
    Str(b64encode(IF method = "gzip" THEN gzip_compress(raw, mtime)
                  ELSE IF method = "zlib" THEN zlib_compress(raw)
                  ELSE raw))

\* Lines 46-53: the CBOR bytes of the parsed JSON; None when json.loads
\* raised.
cbor_or_none(parsed, method, mtime) ==
    IF parsed.ok /\ cbor_encodable(parsed.val)
    THEN compress_and_wrap(cbor2_dumps(parsed.val), method, mtime)
    ELSE None

unpadded(r) == IF r.kind = "str" THEN Str(RStripPad(r.val)) ELSE r

\* process_data writing Base64 without its '=' padding.
process_data_unpadded(data, method, mtime) ==
    IF method = "none" THEN Str(data)
    ELSE IF method = "cbor" THEN unpadded(cbor_or_none(json_loads(data), method, mtime))
    ELSE unpadded(compress_and_wrap(utf8_encode(data), method, mtime))

\* process_data(data, method).  Texts hold no lone surrogates, so
\* data.encode('utf-8') does not fail.
process_data(data, method, mtime) ==
    IF method = "none" THEN Str(data)
    ELSE IF method = "cbor" THEN cbor_or_none(json_loads(data), method, mtime)
    ELSE compress_and_wrap(utf8_encode(data), method, mtime)

(***************************************************************************)
(* qr_decoder.is_base64_string, qr_decoder.decompress_data                 *)
(***************************************************************************)

\* str.isspace
IsSpace(c) ==
    \/ c >= 9 /\ c <= 13
    \/ c >= 28 /\ c <= 32
    \/ c \in {133, 160, 5760, 8232, 8233, 8239, 8287, 12288}
    \/ c >= 8192 /\ c <= 8202

\* s.strip(): from the first to the last character that is no white space.
strip(s) ==
    LET keep == {i \in 1..Len(s) : ~IsSpace(s[i])}
    IN  IF keep = {} THEN << >>
        ELSE SubSeq(s, CHOOSE i \in keep : \A j \in keep : i <= j,
                       CHOOSE i \in keep : \A j \in keep : j <= i)

\* re.fullmatch(r'^[A-Za-z0-9+/]+={0,2}$', s)
fullmatch_base64(s) ==
    LET body == RStripPad(s)
    IN  /\ body # << >>
        /\ Len(s) - Len(body) <= 2
        /\ \A i \in 1..Len(body) : IsB64Char(body[i])

reencodes(s, decoded) ==
    decoded.ok /\ RStripPad(b64encode(decoded.val)) = RStripPad(s)

\* Lines 34-43, on the stripped string.
base64_check(s) ==
    IF Len(s) % 4 # 0 THEN FALSE
    ELSE IF ~fullmatch_base64(s) THEN FALSE
    ELSE reencodes(s, b64decode_validate(s))

is_base64_string(s) == base64_check(strip(s))

\* auto_detect without 78 9C among the zlib headers.
auto_detect_three_headers(data_bytes) ==
    IF Len(data_bytes) >= 2 /\ Take(data_bytes, 2) = <<31, 139>> THEN "gzip"
    ELSE IF /\ Len(data_bytes) >= 2
            /\ Take(data_bytes, 2) \in {<<120, 1>>, <<120, 94>>, <<120, 218>>}
         THEN "zlib"
    ELSE IF cbor2_loads(data_bytes).ok THEN "cbor"
    ELSE "none"

\* The detection trying CBOR before the two signatures.
auto_detect_cbor_first(data_bytes) ==
    IF cbor2_loads(data_bytes).ok THEN "cbor"
    ELSE IF Len(data_bytes) >= 2 /\ Take(data_bytes, 2) = <<31, 139>> THEN "gzip"
    ELSE IF /\ Len(data_bytes) >= 2
            /\ Take(data_bytes, 2) \in {<<120, 1>>, <<120, 94>>, <<120, 156>>, <<120, 218>>}
         THEN "zlib"
    ELSE "none"

\* The method "auto" resolves to, from the header bytes.
auto_detect(data_bytes) ==
    IF Len(data_bytes) >= 2 /\ Take(data_bytes, 2) = <<31, 139>> THEN "gzip"
    ELSE IF /\ Len(data_bytes) >= 2
            /\ Take(data_bytes, 2) \in {<<120, 1>>, <<120, 94>>, <<120, 156>>, <<120, 218>>}
         THEN "zlib"
    ELSE IF cbor2_loads(data_bytes).ok THEN "cbor"
    ELSE "none"

text_or_raise(t) == IF t.ok THEN Str(t.val) ELSE Raise

\* decompressed.decode('utf-8')
decode_utf8(d) == IF d.ok THEN text_or_raise(utf8_decode(d.val)) ELSE Raise

\* json.dumps(result, indent=4)
dump_json(r) == IF r.ok THEN text_or_raise(json_dumps_indent4(r.val)) ELSE Raise

\* The body of the final try: the string returned, or Raise when an
\* exception is raised inside it.
apply_method(method, data_bytes) ==
    IF method = "none" THEN text_or_raise(utf8_decode(data_bytes))
    ELSE IF method = "zlib" THEN decode_utf8(zlib_decompress(data_bytes))
    ELSE IF method = "gzip" THEN decode_utf8(gzip_decompress(data_bytes))
    ELSE IF method = "cbor" THEN dump_json(cbor2_loads(data_bytes))
    ELSE Str(utf8_decode_replace(data_bytes))

\* The except of the final try.
except_replace(result, data_bytes) ==
    IF result.kind = "raise" THEN Str(utf8_decode_replace(data_bytes)) ELSE result

\* The method the final try runs with.
resolve(method, data_bytes) == IF method = "auto" THEN auto_detect(data_bytes) ELSE method

\* The except of the final try returning the text it was given.
decode_bytes_keep_text(data, method, b) ==
    IF ~b.ok THEN Str(data)
    ELSE IF apply_method(resolve(method, b.val), b.val).kind = "raise" THEN Str(data)
    ELSE apply_method(resolve(method, b.val), b.val)

\* Lines 75-117: b is what base64.b64decode gave.
decode_bytes(data, method, b) ==
    IF ~b.ok THEN Str(data)
    ELSE except_replace(apply_method(resolve(method, b.val), b.val), b.val)

\* Lines 75-117 without the except of the final try.
decode_bytes_unguarded(data, method, b) ==
    IF ~b.ok THEN Str(data)
    ELSE apply_method(resolve(method, b.val), b.val)

\* decompress_data without the except of the final try.
decompress_data_unguarded(data, method) ==
    IF method = "none" THEN Str(data)
    ELSE IF ~is_base64_string(data) THEN Str(data)
    ELSE decode_bytes_unguarded(data, method, b64decode(utf8_encode(data)))

\* decompress_data with the Base64 check before the test for "none".
decompress_data_check_first(data, method) ==
    IF ~is_base64_string(data) THEN Str(data)
    ELSE decode_bytes(data, method, b64decode(utf8_encode(data)))

\* decompress_data returning the stripped text when the Base64 check fails.
decompress_data_stripped(data, method) ==
    IF method = "none" THEN Str(data)
    ELSE IF ~is_base64_string(data) THEN Str(strip(data))
    ELSE decode_bytes(data, method, b64decode(utf8_encode(data)))

decompress_data(data, method) ==
    IF method = "none" THEN Str(data)
    ELSE IF ~is_base64_string(data) THEN Str(data)
    ELSE decode_bytes(data, method, b64decode(utf8_encode(data)))

(***************************************************************************)
(* qr_processor.determine_optimal_qr_version                               *)
(***************************************************************************)

qr_capacity ==
    [L |-> <<25, 47, 77, 114, 154, 195, 224, 279, 335, 395, 468, 535, 619, 667, 758, 854,
             938, 1046, 1153, 1249, 1352, 1460, 1588, 1704, 1853, 1990, 2132, 2223, 2369,
             2520, 2677, 2840, 3009, 3183, 3351, 3537, 3729, 3927, 4087, 4296>>,
     M |-> <<20, 38, 61, 90, 122, 154, 178, 221, 262, 311, 366, 419, 483, 528, 600, 656,
             734, 816, 909, 970, 1035, 1134, 1248, 1326, 1451, 1542, 1637, 1732, 1839,
             1994, 2113, 2238, 2369, 2506, 2632, 2780, 2923, 3057, 3220, 3391>>,
     Q |-> <<16, 29, 47, 67, 87, 108, 125, 157, 189, 221, 259, 296, 336, 366, 419, 450,
             512, 568, 614, 664, 718, 754, 808, 871, 911, 985, 1033, 1115, 1171, 1231,
             1286, 1354, 1426, 1502, 1582, 1666, 1754, 1846, 1942, 2042>>,
     H |-> <<10, 20, 35, 50, 64, 84, 93, 122, 143, 174, 200, 227, 259, 283, 321, 365,
             408, 452, 493, 535, 593, 625, 658, 698, 742, 790, 842, 898, 958, 983, 1051,
             1093, 1139, 1219, 1273, 1322, 1367, 1465, 1528, 1594>>]

\* A text of the selector is one character repeated: [ch, n] stands for
\* ch * n, and len(data.encode('utf-8')) is n times the length of ch's
\* encoding.
data_length(data) == data.n * Len(utf8_char(data.ch))

\* len(data): the number of characters.
char_length(data) == data.n

\* The table of level L taken for a level the table does not hold.
capacities_default_first(error_correction_level) ==
    IF error_correction_level \in DOMAIN qr_capacity
    THEN qr_capacity[error_correction_level]
    ELSE qr_capacity["L"]

\* qr_capacity.get(error_correction_level, qr_capacity["M"])
capacities(error_correction_level) ==
    IF error_correction_level \in DOMAIN qr_capacity
    THEN qr_capacity[error_correction_level]
    ELSE qr_capacity["M"]

\* The loop returns at the first version whose capacity holds the data.
first_fit(length, caps) ==
    LET fits == {v \in 1..Len(caps) : length <= caps[v]}
    IN  IF fits = {} THEN 40 ELSE CHOOSE v \in fits : \A u \in fits : v <= u

\* The loop with < for <=.
first_fit_strict(length, caps) ==
    LET fits == {v \in 1..Len(caps) : length < caps[v]}
    IN  IF fits = {} THEN 40 ELSE CHOOSE v \in fits : \A u \in fits : v <= u

\* The loop without the return after it: no version (0) when none fits.
first_fit_or_nothing(length, caps) ==
    LET fits == {v \in 1..Len(caps) : length <= caps[v]}
    IN  IF fits = {} THEN 0 ELSE CHOOSE v \in fits : \A u \in fits : v <= u

\* The selector with < for <= in the loop.
select_strict(data, compression_method, error_correction_level) ==
    first_fit_strict(data_length(data), capacities(error_correction_level))

\* The selector without the fallback after the loop.
select_without_fallback(data, compression_method, error_correction_level) ==
    first_fit_or_nothing(data_length(data), capacities(error_correction_level))

\* The selector measuring characters, not bytes.
select_by_characters(data, compression_method, error_correction_level) ==
    first_fit(char_length(data), capacities(error_correction_level))

determine_optimal_qr_version(data, compression_method, error_correction_level) ==
    first_fit(data_length(data), capacities(error_correction_level))

(***************************************************************************)
(* The texts the codec is run on                                           *)
(***************************************************************************)

MaxTextLen == 3

MaxStrLen == 94

MaxRawLen == 3

\* " 1 N [ ] a e-acute
TextAlphabet == {34, 49, 78, 91, 93, 97, 233}

ShortTexts == UNION {[1..n -> TextAlphabet] : n \in 0..MaxTextLen}

\* Value trees: integers on both sides of each CBOR head width, strings with
\* escapes and characters of one to four bytes, nesting, the constants.
Samples ==
    { VInt(0), VInt(-1), VStr(<<104, 105>>), VNull, VFloat(Infinity),
      VList(<<VInt(23), VInt(24), VInt(255), VInt(256), VInt(65535), VInt(65536)>>),
      VList(<<VInt(-24), VInt(-25), VInt(-256), VInt(-257), VInt(-65537)>>),
      VStr(<<34, 92, 10, 9, 233, 8364, 128512, 47>>),
      VList(<<VList(<< >>), VDict(<< >>), VList(<<VTrue, VFalse, VNull>>)>>),
      VDict(<<[k |-> VStr(<<105, 100>>), v |-> VInt(7)],
              [k |-> VStr(<<233>>), v |-> VList(<<VStr(<< >>), VFloat(NaN)>>)],
              [k |-> VStr(<< >>), v |-> VDict(<<[k |-> VStr(<<49>>), v |-> VTrue]>>)]>>) }

\* {"a":1,"a":2} and  [ 1 , 2 ]  with white space around and inside.
WrittenTexts ==
    { <<123, 34, 97, 34, 58, 49, 44, 34, 97, 34, 58, 50, 125>>,
      <<32, 91, 10, 49, 9, 44, 13, 50, 32, 93, 10>> }

JsonDocs ==
    {json_dumps(v).val : v \in Samples} \cup {json_dumps_indent4(v).val : v \in Samples}
        \cup WrittenTexts

\* "aa...a" with its quotes, for each length.
LongStrings == {<<34>> \o Repeat(97, n) \o <<34>> : n \in 0..MaxStrLen}

\* The first bytes of a gzip and of a zlib stream, and letters.
ByteAlphabet == {31, 139, 120, 156, 97}

RawBytes == UNION {[1..n -> ByteAlphabet] : n \in 0..MaxRawLen}

\* Base64 text that process_data did not write, with and without the line
\* break a scanner or a paste leaves at the end.
B64Inputs == {b64encode(bs) : bs \in RawBytes} \cup {b64encode(bs) \o <<10>> : bs \in RawBytes}

\* Texts of the Base64 alphabet that are not what b64encode writes: bits left
\* over in the last character, padding in the middle, one character short.
OddBase64 ==
    { <<97, 97, 61, 61>>, <<97, 97, 98, 61>>, <<97, 61, 97, 97>>, <<97, 97, 97>>,
      <<97, 97, 61, 61, 10>> }

\* Base64 of bytes another writer could have put in a code: a CBOR byte
\* string, the CBOR undefined, and zlib and gzip streams of a byte that is
\* not UTF-8.
ForeignStreams ==
    { b64encode(<<65, 97>>), b64encode(<<247>>),
      b64encode(zlib_compress(<<233>>)), b64encode(gzip_compress(<<233>>, 0)) }

Inputs ==
    ShortTexts \cup JsonDocs \cup LongStrings \cup B64Inputs \cup OddBase64 \cup ForeignStreams

\* CBOR whose first two bytes are a zlib header: the text string "a" with its
\* length in a byte of its own (78 01 61) and the string of 94 a's (78 5E).
HeaderLikeCbor ==
    { b64encode(<<120, 1, 97>>), b64encode(<<120, 94>> \o Repeat(97, MaxStrLen)) }

\* What process_data writes for the JSON documents.
WrittenCodes ==
    {process_data(t, m, 0).val : t \in JsonDocs, m \in {"zlib", "gzip", "cbor"}}

\* The texts a scanned code can hold.
ScannedTexts ==
    B64Inputs \cup OddBase64 \cup ForeignStreams \cup HeaderLikeCbor \cup WrittenCodes

EncodeMethods == {"none", "zlib", "gzip", "cbor"}

DecodeMethods == {"none", "zlib", "gzip", "cbor", "auto", "lzma"}

\* Two readings of the clock gzip.compress stamps the stream with.
Clock == {0, 1762000000}

(***************************************************************************)
(* The texts the selector is run on                                        *)
(***************************************************************************)

MaxBytes == 4300

MaxGrow == 3

\* 'A' (one byte) or the euro sign (three bytes), repeated.
SelectorChars == {65, 8364}

SelectorTexts ==
    {d \in [ch : SelectorChars, n : 0..MaxBytes] : data_length(d) <= MaxBytes}

Levels == {"L", "M", "Q", "H"}

\* "X" is a level the table does not hold.
LevelInputs == Levels \cup {"X"}

(***************************************************************************)
(* qr_processor.generate_svg and optimise_svg                              *)
(*                                                                         *)
(* A module matrix is a sequence of rows, a row a sequence of booleans     *)
(* (TRUE is a dark module).  Columns and rows are counted from 0 as in     *)
(* the code.  The path command "M{x},{y}h{w}v1h-{w}z" is the record of     *)
(* the numbers it is written with.                                         *)
(***************************************************************************)

pixel_size == 4

\* The inner loop stopping after one module.
run_end_one(row, x) == x + 1

\* while x < len(row) and row[x]: x += 1
RECURSIVE run_end(_, _)
run_end(row, x) == IF x < Len(row) /\ row[x + 1] THEN run_end(row, x + 1) ELSE x

\* f"M{start_x},{y}h{width}v1h-{width}z"
path_command(start_x, y, width) ==
    [M_x |-> start_x, M_y |-> y, h |-> width, v |-> 1, h_back |-> 0 - width]

\* The commands of row y from column x on.
RECURSIVE row_commands(_, _, _)
row_commands(row, y, x) ==
    IF x >= Len(row) THEN << >>
    ELSE IF row[x + 1]
         THEN <<path_command(x, y, run_end(row, x) - x)>>
                  \o row_commands(row, y, run_end(row, x))
         ELSE row_commands(row, y, x + 1)

\* The commands of the rows from y on.
RECURSIVE matrix_commands(_, _)
matrix_commands(qr_matrix, y) ==
    IF y >= Len(qr_matrix) THEN << >>
    ELSE row_commands(qr_matrix[y + 1], y, 0) \o matrix_commands(qr_matrix, y + 1)

\* <rect width="100%" height="100%" fill="white"/>
background_rect == [tag |-> "rect", fill |-> "white", d |-> << >>]

\* <path d="..." fill="black"/>, d the commands joined by spaces
path_element(path_commands) == [tag |-> "path", fill |-> "black", d |-> path_commands]

\* A path element for each run instead of one for all of them.
svg_tree_path_per_run(size, path_commands) ==
    [viewBox |-> <<0, 0, size, size>>,
     width |-> size * pixel_size,
     height |-> size * pixel_size,
     children |-> <<background_rect>>
                      \o [i \in 1..Len(path_commands) |-> path_element(<<path_commands[i]>>)]]

\* The svg element and its children.
svg_tree(size, path_commands) ==
    [viewBox |-> <<0, 0, size, size>>,
     width |-> size * pixel_size,
     height |-> size * pixel_size,
     children |-> <<background_rect>>
                      \o (IF path_commands # << >>
                          THEN <<path_element(path_commands)>>
                          ELSE << >>)]

\* The commands with column and row exchanged.
transposed(path_commands) ==
    [i \in 1..Len(path_commands) |->
        path_command(path_commands[i].M_y, path_commands[i].M_x, path_commands[i].h)]

\* generate_svg appending each command in front of the ones before it.
generate_svg_prepending(qr_matrix) ==
    svg_tree(Len(qr_matrix),
             [i \in 1..Len(matrix_commands(qr_matrix, 0)) |->
                 matrix_commands(qr_matrix, 0)[Len(matrix_commands(qr_matrix, 0)) + 1 - i]])

\* generate_svg writing M{y},{x} for M{x},{y}.
generate_svg_transposed(qr_matrix) ==
    svg_tree(Len(qr_matrix), transposed(matrix_commands(qr_matrix, 0)))

\* The document generate_svg writes for the matrix.
generate_svg(qr_matrix) == svg_tree(Len(qr_matrix), matrix_commands(qr_matrix, 0))

\* What the svgo command does to a file it minifies: the drawing is kept.
minify(file) == [file EXCEPT !.minified = TRUE]

\* The ways the svgo command ends.
SvgoOutcomes == {"ok", "not_found", "exit_error"}

\* optimise_svg without its except: the failure leaves the function.
optimise_svg_unguarded(file, outcome) ==
    IF outcome = "ok"
    THEN [file |-> minify(file), log |-> "debug", raised |-> FALSE]
    ELSE [file |-> file, log |-> "", raised |-> TRUE]

\* optimise_svg: the file after the call, the level of the line logged, and
\* whether an exception left the function.
optimise_svg(file, outcome) ==
    IF outcome = "ok"
    THEN [file |-> minify(file), log |-> "debug", raised |-> FALSE]
    ELSE [file |-> file, log |-> "error", raised |-> FALSE]

\* The square matrices of up to MaxModules modules a side.
MaxModules == 3

Matrices == UNION {[1..n -> [1..n -> BOOLEAN]] : n \in 1..MaxModules}


(***************************************************************************)
(* qr_quality.check_qr_quality                                             *)
(*                                                                         *)
(* A picture is a record [mode, pixels]: pixels is a sequence of rows, a   *)
(* row a sequence of pixels, a pixel the tuple of its bands (one band in   *)
(* the modes "1" and "L", three in "RGB").  A float computed as a quotient *)
(* is the record [num, den] of the integers divided.                       *)
(***************************************************************************)

threshold == 128

quiet_threshold == 230

\* Image.convert("L") on one pixel: the band itself, or the luma of the
\* three bands as Pillow rounds it.
to_gray(mode, p) ==
    IF mode = "RGB"
    THEN (p[1] * 19595 + p[2] * 38470 + p[3] * 7471 + 32768) \div 65536
    ELSE p[1]

\* np.array(qr_img.convert("L"))
convert_L(qr_img) ==
    [r \in 1..Len(qr_img.pixels) |->
        [c \in 1..Len(qr_img.pixels[r]) |-> to_gray(qr_img.mode, qr_img.pixels[r][c])]]

\* The values of the array, row after row.
flat(gray_array) == ConcatRange(gray_array, 1, Len(gray_array))

RECURSIVE sum(_)
sum(values) == IF values = << >> THEN 0 ELSE Head(values) + sum(Tail(values))

\* np.mean(pixels) if pixels.size > 0 else default
mean_or(pixels, default) ==
    IF Len(pixels) > 0
    THEN [num |-> sum(pixels), den |-> Len(pixels)]
    ELSE [num |-> default, den |-> 1]

IsLight(g) == g >= threshold

IsDark(g) == g < threshold

IsQuiet(g) == g > quiet_threshold

minus(a, b) == [num |-> a.num * b.den - b.num * a.den, den |-> a.den * b.den]

\* The border test with the light/dark split for its threshold.
quiet_zone_light(gray_array) ==
    /\ \A c \in 1..Len(gray_array[1]) : IsLight(gray_array[1][c])
    /\ \A c \in 1..Len(gray_array[Len(gray_array)]) : IsLight(gray_array[Len(gray_array)][c])
    /\ \A r \in 1..Len(gray_array) : IsLight(gray_array[r][1])
    /\ \A r \in 1..Len(gray_array) : IsLight(gray_array[r][Len(gray_array[r])])

\* np.all over the top and bottom rows and the left and right columns
quiet_zone(gray_array) ==
    /\ \A c \in 1..Len(gray_array[1]) : IsQuiet(gray_array[1][c])
    /\ \A c \in 1..Len(gray_array[Len(gray_array)]) : IsQuiet(gray_array[Len(gray_array)][c])
    /\ \A r \in 1..Len(gray_array) : IsQuiet(gray_array[r][1])
    /\ \A r \in 1..Len(gray_array) : IsQuiet(gray_array[r][Len(gray_array[r])])

\* The score with a factor of 120 for the factor of 80.
readability_steep(data_density) ==
    [num |-> 100 * data_density.den - 120 * data_density.num, den |-> data_density.den]

\* 100 - (data_density * 80)
readability(data_density) ==
    [num |-> 100 * data_density.den - 80 * data_density.num, den |-> data_density.den]

\* The share of light pixels taken for the share of dark ones.
metrics_light_share(gray_array, pixels) ==
    [contrast |-> minus(mean_or(SelectSeq(pixels, IsLight), 255),
                        mean_or(SelectSeq(pixels, IsDark), 0)),
     quiet_zone_present |-> quiet_zone(gray_array),
     data_density |-> [num |-> Len(SelectSeq(pixels, IsLight)), den |-> Len(pixels)],
     readability_score |->
         readability([num |-> Len(SelectSeq(pixels, IsLight)), den |-> Len(pixels)])]

\* The four metrics, from the array and its values in a row.
metrics(gray_array, pixels) ==
    [contrast |-> minus(mean_or(SelectSeq(pixels, IsLight), 255),
                        mean_or(SelectSeq(pixels, IsDark), 0)),
     quiet_zone_present |-> quiet_zone(gray_array),
     data_density |-> [num |-> Len(SelectSeq(pixels, IsDark)), den |-> Len(pixels)],
     readability_score |->
         readability([num |-> Len(SelectSeq(pixels, IsDark)), den |-> Len(pixels)])]

check_qr_quality_light_share(qr_img) ==
    metrics_light_share(convert_L(qr_img), flat(convert_L(qr_img)))

\* The metrics check_qr_quality formats into its report.
check_qr_quality(qr_img) == metrics(convert_L(qr_img), flat(convert_L(qr_img)))

\* Pictures of up to MaxSide pixels a side: one colour all over, or with one
\* pixel of another colour.
MaxSide == 3

\* Grays on both sides of the two thresholds.
Grays == {0, 127, 128, 230, 231, 255}

\* Black, white, red, yellow and a light grey.
Colours == {<<0, 0, 0>>, <<255, 255, 255>>, <<255, 0, 0>>, <<255, 255, 0>>, <<231, 231, 231>>}

Palette(mode) ==
    IF mode = "RGB" THEN Colours
    ELSE IF mode = "1" THEN {<<0>>, <<255>>}
    ELSE {<<g>> : g \in Grays}

\* The picture of h rows and w columns of colour b, with colour p at row r,
\* column c.
Blot(mode, h, w, b, r, c, p) ==
    [mode |-> mode,
     pixels |-> [i \in 1..h |-> [j \in 1..w |-> IF i = r /\ j = c THEN p ELSE b]]]

Images ==
    UNION {{Blot(mode, h, w, b, r, c, p) : b \in Palette(mode), p \in Palette(mode),
                                            r \in 1..h, c \in 1..w} :
           mode \in {"1", "L", "RGB"}, h \in 1..MaxSide, w \in 1..MaxSide}


(***************************************************************************)
(* qr_processor.extract_essential_ticket_details and                       *)
(* encode_ticket_details_to_cbor                                           *)
(***************************************************************************)

\* The keys of the ticket and of the extract, as strings.
Key ==
    [
     provider |-> <<112, 114, 111, 118, 105, 100, 101, 114>>,
     ticket_id |-> <<116, 105, 99, 107, 101, 116, 95, 105, 100>>,
     ticket_type |-> <<116, 105, 99, 107, 101, 116, 95, 116, 121, 112, 101>>,
     departure_time |-> <<100, 101, 112, 97, 114, 116, 117, 114, 101, 95, 116, 105, 109, 101>>,
     arrival_time |-> <<97, 114, 114, 105, 118, 97, 108, 95, 116, 105, 109, 101>>,
     train_number |-> <<116, 114, 97, 105, 110, 95, 110, 117, 109, 98, 101, 114>>,
     train_operator |-> <<116, 114, 97, 105, 110, 95, 111, 112, 101, 114, 97, 116, 111, 114>>,
     station_start |-> <<115, 116, 97, 116, 105, 111, 110, 95, 115, 116, 97, 114, 116>>,
     station_end |-> <<115, 116, 97, 116, 105, 111, 110, 95, 101, 110, 100>>,
     name |-> <<110, 97, 109, 101>>,
     coach |-> <<99, 111, 97, 99, 104>>,
     seat_number |-> <<115, 101, 97, 116, 95, 110, 117, 109, 98, 101, 114>>,
     class |-> <<99, 108, 97, 115, 115>>,
     price |-> <<112, 114, 105, 99, 101>>,
     currency |-> <<99, 117, 114, 114, 101, 110, 99, 121>>,
     payment_status |-> <<112, 97, 121, 109, 101, 110, 116, 95, 115, 116, 97, 116, 117, 115>>,
     reference_number |-> <<114, 101, 102, 101, 114, 101, 110, 99, 101, 95, 110, 117, 109, 98, 101, 114>>,
     holder |-> <<104, 111, 108, 100, 101, 114>>,
     first_name |-> <<102, 105, 114, 115, 116, 95, 110, 97, 109, 101>>,
     last_name |-> <<108, 97, 115, 116, 95, 110, 97, 109, 101>>,
     security_hash |-> <<115, 101, 99, 117, 114, 105, 116, 121, 95, 104, 97, 115, 104>>,
     train |-> <<116, 114, 97, 105, 110>>,
     from |-> <<102, 114, 111, 109>>,
     to |-> <<116, 111>>,
     seat |-> <<115, 101, 97, 116>>,
     status |-> <<115, 116, 97, 116, 117, 115>>,
     reference |-> <<114, 101, 102, 101, 114, 101, 110, 99, 101>>,
     passenger |-> <<112, 97, 115, 115, 101, 110, 103, 101, 114>> ]

\* json_data.get(key, default) on a dict
get(json_data, key, default) ==
    IF \E i \in 1..Len(json_data.items) : json_data.items[i].k = VStr(key)
    THEN json_data.items[CHOOSE i \in 1..Len(json_data.items) : json_data.items[i].k = VStr(key)].v
    ELSE default

\* The text an f-string writes for a value: str(value).  Modelled for
\* strings, integers, booleans, None, NaN and the infinities; the tickets
\* drawn below hold no list or dict in a field that is formatted.
py_str(v) ==
    IF v.t = "str" THEN v.s
    ELSE IF v.t = "int" THEN json_int(v.n)
    ELSE IF v.t = "true" THEN <<84, 114, 117, 101>>
    ELSE IF v.t = "false" THEN <<70, 97, 108, 115, 101>>
    ELSE IF v.t = "null" THEN <<78, 111, 110, 101>>
    ELSE IF v.t = "float" /\ v.s = NaN THEN <<110, 97, 110>>
    ELSE IF v.t = "float" /\ v.s = Infinity THEN <<105, 110, 102>>
    ELSE IF v.t = "float" THEN <<45, 105, 110, 102>>
    ELSE << >>

\* The default of json_data.get('price', 0.00) as the f-string writes it: 0.0
ZeroPrice == VStr(<<48, 46, 48>>)

Empty == VStr(<< >>)

\* The 16 entries of the extract, from the ticket and its station_start,
\* station_end and holder dicts.
essential(json_data, station_start, station_end, holder) ==
    VDict(<<
        [k |-> VStr(Key.provider), v |-> get(json_data, Key.provider, Empty)],
        [k |-> VStr(Key.ticket_id), v |-> get(json_data, Key.ticket_id, Empty)],
        [k |-> VStr(Key.ticket_type), v |-> get(json_data, Key.ticket_type, Empty)],
        [k |-> VStr(Key.departure_time), v |-> get(json_data, Key.departure_time, Empty)],
        [k |-> VStr(Key.arrival_time), v |-> get(json_data, Key.arrival_time, Empty)],
        [k |-> VStr(Key.train),
         v |-> VStr(py_str(get(json_data, Key.train_number, Empty)) \o <<32, 40>>
                    \o py_str(get(json_data, Key.train_operator, Empty)) \o <<41>>)],
        [k |-> VStr(Key.from), v |-> get(station_start, Key.name, Empty)],
        [k |-> VStr(Key.to), v |-> get(station_end, Key.name, Empty)],
        [k |-> VStr(Key.coach), v |-> get(json_data, Key.coach, Empty)],
        [k |-> VStr(Key.seat), v |-> get(json_data, Key.seat_number, Empty)],
        [k |-> VStr(Key.class), v |-> get(json_data, Key.class, Empty)],
        [k |-> VStr(Key.price),
         v |-> VStr(py_str(get(json_data, Key.price, ZeroPrice)) \o <<32>>
                    \o py_str(get(json_data, Key.currency, Empty)))],
        [k |-> VStr(Key.status), v |-> get(json_data, Key.payment_status, Empty)],
        [k |-> VStr(Key.reference), v |-> get(json_data, Key.reference_number, Empty)],
        [k |-> VStr(Key.passenger),
         v |-> VStr(py_str(get(holder, Key.first_name, Empty)) \o <<32>>
                    \o py_str(get(holder, Key.last_name, Empty)))],
        [k |-> VStr(Key.security_hash), v |-> get(json_data, Key.security_hash, Empty)] >>)

\* The extract, or the AttributeError of a .get on a value that is not a
\* dict: the ticket itself, its station_start, station_end or holder.
extract_essential_ticket_details(json_data) ==
    IF json_data.t # "dict" THEN Fail
    ELSE IF get(json_data, Key.station_start, VDict(<< >>)).t # "dict" THEN Fail
    ELSE IF get(json_data, Key.station_end, VDict(<< >>)).t # "dict" THEN Fail
    ELSE IF get(json_data, Key.holder, VDict(<< >>)).t # "dict" THEN Fail
    ELSE Ok(essential(json_data,
                      get(json_data, Key.station_start, VDict(<< >>)),
                      get(json_data, Key.station_end, VDict(<< >>)),
                      get(json_data, Key.holder, VDict(<< >>))))

\* A bytes object returned.
Bytes(bs) == [kind |-> "bytes", val |-> bs]

\* Lines 274-281: the extract written as CBOR and wrapped.
encode_extract(essential_data, use_base64) ==
    IF ~essential_data.ok THEN None
    ELSE IF ~cbor_encodable(essential_data.val) THEN None
    ELSE IF use_base64 THEN Str(b64encode(cbor2_dumps(essential_data.val)))
    ELSE Bytes(cbor2_dumps(essential_data.val))

\* The encoder writing the whole ticket instead of the extract.
encode_whole_ticket(json_data, use_base64) ==
    IF ~json_data.ok THEN None
    ELSE encode_extract(IF extract_essential_ticket_details(json_data.val).ok
                        THEN json_data ELSE Fail, use_base64)

\* Lines 272-284 once json.loads has returned or raised.
encode_parsed(json_data, use_base64) ==
    IF ~json_data.ok THEN None
    ELSE encode_extract(extract_essential_ticket_details(json_data.val), use_base64)

encode_ticket_details_whole(json_text, use_base64) ==
    encode_whole_ticket(json_loads(json_text), use_base64)

encode_ticket_details_to_cbor(json_text, use_base64) ==
    encode_parsed(json_loads(json_text), use_base64)


\* The tickets: a ticket is the dict of the entries chosen, one choice for
\* each group of fields; a choice is a sequence of entries.
Entry(key, v) == [k |-> VStr(key), v |-> v]

StationStartChoices ==
    { << >>,
      <<Entry(Key.station_start, VDict(<<Entry(<<105, 100>>, VStr(<<49, 49, 48, 48, 48, 49>>)), Entry(Key.name, VStr(<<83, 116, 97, 116, 105, 111, 110, 32, 76>>))>>))>>,
      <<Entry(Key.station_start, VStr(<<83, 116, 97, 116, 105, 111, 110, 32, 76>>))>>,
      <<Entry(Key.station_start, VNull)>> }

StationEndChoices ==
    { << >>, <<Entry(Key.station_end, VDict(<<Entry(Key.name, VStr(<<83, 116, 97, 116, 105, 111, 110, 32, 79>>))>>))>> }

HolderChoices ==
    { << >>,
      <<Entry(Key.holder, VDict(<<Entry(Key.first_name, VStr(<<74, 111, 104, 110>>)),
                                  Entry(Key.last_name, VStr(<<68, 111, 101>>))>>))>>,
      <<Entry(Key.holder, VInt(7))>> }

PriceChoices ==
    { << >>, <<Entry(Key.price, VInt(115))>>, <<Entry(Key.price, VFloat(NaN))>>,
      <<Entry(Key.price, VNull)>> }

CurrencyChoices == { << >>, <<Entry(Key.currency, VStr(<<69, 85, 82>>))>> }

\* A hash, a string with a lone surrogate (written \ud800 in the JSON text),
\* and a list where a string is expected.
HashChoices ==
    { << >>,
      <<Entry(Key.security_hash, VStr(<<76, 97, 61, 111, 80, 71, 57, 104, 50, 117, 43, 47>>))>>,
      <<Entry(Key.security_hash, VStr(<<55296>>))>>,
      <<Entry(Key.security_hash, VList(<<VInt(1), VDict(<<Entry(<<97>>, VNull)>>)>>))>> }

TrainChoices ==
    { << >>,
      <<Entry(Key.train_number, VInt(12)), Entry(Key.train_operator, VStr(<<68, 66>>)),
        Entry(Key.seat_number, VStr(<<49, 50, 65>>))>> }

\* Every ticket has an id, and a booking date that the extract drops.
Tickets ==
    { VDict(<<Entry(Key.ticket_id, VStr(<<55, 56, 52, 51, 51, 50, 48, 49>>)), Entry(<<98, 111, 111, 107, 105, 110, 103, 95, 100, 97, 116, 101>>, VStr(<<50, 48, 50, 53, 45, 48, 51, 45, 49, 48>>))>>
            \o a \o b \o c \o d \o e \o f \o g) :
        a \in StationStartChoices, b \in StationEndChoices, c \in HolderChoices,
        d \in PriceChoices, e \in CurrencyChoices, f \in HashChoices, g \in TrainChoices }

\* JSON that is not an object, and texts that are not JSON.
NotTickets == { <<91, 123, 125, 93>>, <<55>>, <<110, 117, 108, 108>>, <<123, 34, 116, 105, 99, 107, 101, 116, 95, 105, 100, 34, 58, 32>>, << >> }

TicketTexts == {json_dumps(v).val : v \in Tickets} \cup NotTickets

(***************************************************************************)
(* qr_decoder.decode_qr_image, qr_decoder.decode_qr_data and gui.decode_qr *)
(*                                                                         *)
(* A picture is the record [readable, codes]: whether cv2.imread can read  *)
(* the file, and the raw bytes of the codes pyzbar finds in it.  What a    *)
(* handler does is a record of the message box shown, the text of the      *)
(* display, and the number of times decompress_data was called.            *)
(***************************************************************************)

\* raw_data.decode("latin1"): each byte is the character of its number.
latin1_decode(bs) == bs

decoded_or_latin1(raw_data, t) ==
    IF t.ok THEN Str(strip(t.val)) ELSE Str(strip(latin1_decode(raw_data)))

\* decode_qr_image(file_path): None for a file that is no picture or holds
\* no code, else the text of the first code.
decode_qr_image(picture) ==
    IF ~picture.readable THEN None
    ELSE IF picture.codes = << >> THEN None
    ELSE decoded_or_latin1(picture.codes[1], utf8_decode(picture.codes[1]))

gen_ver == <<103, 101, 110, 95, 118, 101, 114>>

\* del parsed["gen_ver"] when parsed is a dict that holds the key
without_gen_ver(parsed) ==
    IF parsed.t = "dict"
    THEN [parsed EXCEPT !.items = SelectSeq(parsed.items, LAMBDA e : e.k # VStr(gen_ver))]
    ELSE parsed

pretty_or(data, dumped) == IF dumped.ok THEN dumped.val ELSE data

\* decode_qr_data(data): the JSON pretty-printed without gen_ver, or the
\* data as it is when it is no JSON.
decode_qr_data_parsed(data, parsed) ==
    IF parsed.ok THEN pretty_or(data, json_dumps_indent4(without_gen_ver(parsed.val)))
    ELSE data

decode_qr_data(data) == decode_qr_data_parsed(data, json_loads(data))

DecodedDataLabel == <<68, 101, 99, 111, 100, 101, 100, 32, 68, 97, 116, 97, 58, 10>>

\* Lines 345-350 of gui.py.
show_decoded(decompressed) ==
    [dialog |-> "none",
     display |-> DecodedDataLabel \o decode_qr_data(decompressed.val),
     codec_calls |-> 1]

\* decode_qr calling decompress_data on the None of decode_qr_image's
\* failure as on a text.
decode_qr_unchecked(chosen, picture, shown) ==
    IF ~chosen THEN [dialog |-> "Error", display |-> shown, codec_calls |-> 0]
    ELSE show_decoded(decompress_data(decode_qr_image(picture).val, "auto"))

\* gui.decode_qr: chosen is whether the user picked a file, shown the text
\* the display holds.
decode_qr(chosen, picture, shown) ==
    IF ~chosen THEN [dialog |-> "Error", display |-> shown, codec_calls |-> 0]
    ELSE IF decode_qr_image(picture) = None
         THEN [dialog |-> "Error", display |-> shown, codec_calls |-> 0]
    ELSE show_decoded(decompress_data(decode_qr_image(picture).val, "auto"))

\* What the codes of the pictures hold: plain text with white space around
\* it, JSON with and without gen_ver, bytes that are not UTF-8, nothing, and
\* what process_data writes.
RawCodes ==
    { <<104, 101, 108, 108, 111>>, <<32, 104, 105, 32, 10>>, << >>, <<233>>, <<55>>,
      <<123, 34, 103, 101, 110, 95, 118, 101, 114, 34, 58, 32, 34, 120, 34, 44, 32,
        34, 97, 34, 58, 32, 49, 125>>,
      <<123, 34, 97, 34, 58, 49, 125>>, <<91, 49, 93>> }
        \cup {utf8_encode(t) : t \in ForeignStreams \cup HeaderLikeCbor}
        \cup {utf8_encode(process_data(<<91, 49, 93>>, m, 0).val) : m \in {"zlib", "gzip", "cbor"}}

\* Files that are no picture, pictures without a code, with one code and
\* with two.
Pictures ==
    {[readable |-> FALSE, codes |-> << >>], [readable |-> TRUE, codes |-> << >>]}
        \cup {[readable |-> TRUE, codes |-> <<raw>>] : raw \in RawCodes}
        \cup {[readable |-> TRUE, codes |-> <<raw, <<55>>>>] : raw \in RawCodes}


(***************************************************************************)
(* gui.generate_qr                                                         *)
(*                                                                         *)
(* The settings are the record st of the Tk variables (compression,        *)
(* extract_essential, debug, auto_version, error_correction,               *)
(* output_format, auto_save); use_case keeps its value "auto".  The        *)
(* environment is the record env: whether a file was chosen, its text,     *)
(* whether the qrcode library builds the symbol, whether a save path was   *)
(* chosen and whether the file can be written.  What the handler did is a  *)
(* record of the message boxes shown in order, whether an exception left   *)
(* it, the text and the string handed on, the version and level given to   *)
(* the qrcode library, and whether a symbol was built and a file written.  *)
(***************************************************************************)

MethodText ==
    [none |-> <<110, 111, 110, 101>>, zlib |-> <<122, 108, 105, 98>>,
     gzip |-> <<103, 122, 105, 112>>, cbor |-> <<99, 98, 111, 114>>]

LevelText == [L |-> <<76>>, M |-> <<77>>, Q |-> <<81>>, H |-> <<72>>]

BoolText(b) == IF b THEN <<84, 114, 117, 101>> ELSE <<70, 97, 108, 115, 101>>

\* "Use case: auto, Compression: {compression}, Error Correction: {level},
\* Auto QR Version: {auto_version}"
debug_info(st) ==
    <<85, 115, 101, 32, 99, 97, 115, 101, 58, 32, 97, 117, 116, 111, 44, 32, 67, 111, 109, 112, 114, 101, 115, 115, 105, 111, 110, 58, 32>>
        \o MethodText[st.compression]
        \o <<44, 32, 69, 114, 114, 111, 114, 32, 67, 111, 114, 114, 101, 99, 116, 105, 111, 110, 58, 32>>
        \o LevelText[st.error_correction]
        \o <<44, 32, 65, 117, 116, 111, 32, 81, 82, 32, 86, 101, 114, 115, 105, 111, 110, 58, 32>>
        \o BoolText(st.auto_version)

\* "DEBUG: " + debug_info + "\n" + data when debug is on
prefixed(data, st) ==
    IF st.debug THEN <<68, 69, 66, 85, 71, 58, 32>> \o debug_info(st) \o <<10>> \o data ELSE data

debug_key == <<100, 101, 98, 117, 103>>

\* new_data.update(json_data) for a dict: each key is set in turn.
RECURSIVE update(_, _)
update(items, more) ==
    IF more = << >> THEN items
    ELSE update(DictPut(items, Head(more).k, Head(more).v), Tail(more))

\* new_data = OrderedDict(); new_data["debug"] = debug_info;
\* new_data.update(json_data)
with_debug(st, json_data) ==
    VDict(update(<<[k |-> VStr(debug_key), v |-> VStr(debug_info(st))]>>, json_data.items))

\* What lines 156-240 leave: the text to encode, the source type, and
\* whether the warning box was shown; or the exception that left them.
Prepared(data, source_type, warned) ==
    [ok |-> TRUE, data |-> data, source_type |-> source_type, warned |-> warned]

PrepareRaised == [ok |-> FALSE, data |-> << >>, source_type |-> "", warned |-> FALSE]

\* The debug key put first and the whole written by json.dumps.  update
\* raises for a value that is no dict (the values drawn that are no dict are
\* integers, null and lists of integers), and nothing catches it.
dumped_with_debug(st, json_data) ==
    IF json_data.t = "dict"
    THEN Prepared(json_dumps(with_debug(st, json_data)).val, "json", FALSE)
    ELSE PrepareRaised

\* Lines 164-180: extract_essential_ticket_details raises AttributeError for
\* a value without get, and only JSONDecodeError is caught.
prepare_extract(st, essential_data) ==
    IF ~essential_data.ok THEN PrepareRaised
    ELSE IF st.debug THEN dumped_with_debug(st, essential_data.val)
    ELSE Prepared(json_dumps(essential_data.val).val, "json", FALSE)

\* Lines 156-240, parsed being what json.loads(data) gives.
prepare_parsed(data, st, parsed) ==
    IF st.compression = "cbor" \/ st.extract_essential
    THEN IF ~parsed.ok THEN Prepared(prefixed(data, st), "txt", TRUE)
         ELSE IF st.extract_essential
              THEN prepare_extract(st, extract_essential_ticket_details(parsed.val))
         ELSE IF st.debug THEN dumped_with_debug(st, parsed.val)
         ELSE Prepared(json_dumps(parsed.val).val, "json", FALSE)
    ELSE IF ~parsed.ok THEN Prepared(prefixed(data, st), "txt", FALSE)
         ELSE IF st.debug THEN dumped_with_debug(st, parsed.val)
         ELSE Prepared(data, "json", FALSE)

prepare(data, st) == prepare_parsed(data, st, json_loads(data))

\* determine_optimal_qr_version(data, ..., level) on a text given by its
\* characters.
version_for(data, error_correction_level) ==
    first_fit(Len(utf8_encode(data)), capacities(error_correction_level))

\* Lines 256-261 of generate_qr, 447-450 of batch_generate_qr.
qr_version(st, data) == IF st.auto_version THEN version_for(data, "M") ELSE 5

\* error_correction_mapping.get(error_correction_var.get(), ERROR_CORRECT_M)
error_corr(st) ==
    IF st.error_correction \in {"L", "M", "Q", "H"} THEN st.error_correction ELSE "M"

Warned(prep) == IF prep.warned THEN <<"Warning">> ELSE << >>

\* The handler's outcome when it stops before the symbol is built.
Stopped(dialogs, raised, data, processed) ==
    [dialogs |-> dialogs, raised |-> raised, data |-> data, processed |-> processed,
     version |-> 0, level |-> "", built |-> FALSE, written |-> FALSE]

\* Its outcome from the call of generate_qr_code on.
Built(dialogs, data, processed, version, level, built, written) ==
    [dialogs |-> dialogs, raised |-> FALSE, data |-> data, processed |-> processed,
     version |-> version, level |-> level, built |-> built, written |-> written]

\* Lines 293-318: the picture or the SVG is written.
save_symbol(st, env, dialogs, data, processed, version, level) ==
    IF st.output_format \notin {"png", "svg"}
    THEN Built(Append(dialogs, "Error"), data, processed, version, level, TRUE, FALSE)
    ELSE IF ~env.save_ok
         THEN Built(Append(dialogs, "Error"), data, processed, version, level, TRUE, FALSE)
    ELSE Built(Append(dialogs, "Success"), data, processed, version, level, TRUE, TRUE)

\* generate_qr_code succeeding whatever the library does.
build_symbol_swallowing(st, env, dialogs, data, processed, version, level) ==
    IF ~st.auto_save /\ ~env.save_chosen
    THEN Built(dialogs, data, processed, version, level, TRUE, FALSE)
    ELSE save_symbol(st, env, dialogs, data, processed, version, level)

\* Lines 266-291: generate_qr_code, then the path to save at.
build_symbol(st, env, dialogs, data, processed, version, level) ==
    IF ~env.symbol_ok
    THEN Built(Append(dialogs, "Error"), data, processed, version, level, FALSE, FALSE)
    ELSE IF ~st.auto_save /\ ~env.save_chosen
         THEN Built(dialogs, data, processed, version, level, TRUE, FALSE)
    ELSE save_symbol(st, env, dialogs, data, processed, version, level)

\* Lines 242-246: process_data, and the error box when it returns None.
encode_prepared(st, env, prep, processed) ==
    IF processed = None
    THEN Stopped(Append(Warned(prep), "Error"), FALSE, prep.data, processed)
    ELSE build_symbol(st, env, Warned(prep), prep.data, processed,
                      qr_version(st, prep.data), error_corr(st))

after_prepare(st, env, prep) ==
    IF ~prep.ok THEN Stopped(<< >>, TRUE, << >>, None)
    ELSE encode_prepared(st, env, prep, process_data(prep.data, st.compression, env.mtime))

\* generate_qr()
generate_qr(st, env) ==
    IF ~env.chosen THEN Stopped(<<"Error">>, FALSE, << >>, None)
    ELSE IF strip(env.text) = << >> THEN Stopped(<<"Error">>, FALSE, << >>, None)
    ELSE after_prepare(st, env, prepare(strip(env.text), st))

\* The settings the window can be in.
Settings ==
    [compression : {"none", "zlib", "gzip", "cbor"},
     extract_essential : BOOLEAN,
     debug : BOOLEAN,
     auto_version : BOOLEAN,
     error_correction : {"L", "M", "Q", "H"},
     output_format : {"png", "svg"},
     auto_save : BOOLEAN]

\* Files: plain text, blank, JSON objects (one a ticket, one with a debug
\* key), JSON that is no object, and texts of 10, 20 and 21 letters, on
\* both sides of the capacity of version 1 at levels H and M.
FileTexts ==
    { <<104, 101, 108, 108, 111>>, <<32, 10>>, <<123, 34, 97, 34, 58, 32, 49, 125>>,
      <<123, 34, 116, 105, 99, 107, 101, 116, 95, 105, 100, 34, 58, 32, 34, 84, 49, 34, 44, 32, 34, 112, 114, 105, 99, 101, 34, 58, 32, 53, 44, 32, 34, 104, 111, 108, 100, 101, 114, 34, 58, 32, 123, 34, 102, 105, 114, 115, 116, 95, 110, 97, 109, 101, 34, 58, 32, 34, 74, 111, 34, 125, 125>>,
      <<123, 34, 100, 101, 98, 117, 103, 34, 58, 32, 48, 44, 32, 34, 97, 34, 58, 32, 49, 125>>,
      <<91, 49, 93>>, <<55>>, <<32, 104, 105, 10>>,
      Repeat(97, 10), Repeat(97, 20), Repeat(97, 21) }

\* What happens around the handler.
Environments ==
    {[chosen |-> FALSE, text |-> << >>, symbol_ok |-> TRUE, save_chosen |-> TRUE,
      save_ok |-> TRUE, mtime |-> 0]}
        \cup [chosen : {TRUE}, text : FileTexts, symbol_ok : BOOLEAN,
              save_chosen : {TRUE}, save_ok : BOOLEAN, mtime : {0}]
        \cup [chosen : {TRUE}, text : FileTexts, symbol_ok : BOOLEAN,
              save_chosen : {FALSE}, save_ok : {TRUE}, mtime : {0}]


(***************************************************************************)
(* gui.batch_generate_qr                                                   *)
(*                                                                         *)
(* A file of the folder is the record [base, ext, text, readable,          *)
(* symbol_ok, save_ok]: its name, what it holds, whether it can be read,   *)
(* whether the qrcode library builds the symbol for it and whether its     *)
(* picture can be written.  A picture written is named by the record       *)
(* [base, source_type] of the parts of its name that vary in one batch.    *)
(***************************************************************************)

\* "Use case: auto, Compression: {compression}"
batch_debug_info(st) == <<85, 115, 101, 32, 99, 97, 115, 101, 58, 32, 97, 117, 116, 111, 44, 32, 67, 111, 109, 112, 114, 101, 115, 115, 105, 111, 110, 58, 32>> \o MethodText[st.compression]

\* data_json["gen_ver"] = debug_info; data = json.dumps(data_json).  The
\* assignment raises TypeError for a value that is no dict, and only
\* JSONDecodeError is caught.
batch_with_debug(st, data_json) ==
    IF data_json.t = "dict"
    THEN Prepared(json_dumps(VDict(DictPut(data_json.items, VStr(gen_ver),
                                            VStr(batch_debug_info(st))))).val,
                  "json", FALSE)
    ELSE PrepareRaised

\* Lines 431-443, parsed being what json.loads(data) gives.
batch_prepare_parsed(data, st, parsed) ==
    IF ~parsed.ok
    THEN Prepared(IF st.debug
                  THEN <<68, 69, 66, 85, 71, 58, 32>> \o batch_debug_info(st) \o <<10>> \o data
                  ELSE data, "txt", FALSE)
    ELSE IF st.debug THEN batch_with_debug(st, parsed.val)
    ELSE Prepared(data, "json", FALSE)

batch_prepare(data, st) == batch_prepare_parsed(data, st, json_loads(data))

\* f"{base}_{use_case}_{source_type}_base64_{compression}.png"
new_filename(file, source_type) == [base |-> file.base, source_type |-> source_type]

\* What one pass of the loop did: "unreadable", "empty", "raised",
\* "not_encoded", "not_built", "not_saved" or "saved", with the name of the
\* picture and what was handed to the qrcode library.
Pass(result, file, prep, processed, version, level) ==
    [result |-> result, name |-> new_filename(file, prep.source_type), data |-> prep.data,
     processed |-> processed, version |-> version, level |-> level]

\* Lines 451-464.
batch_build(st, file, prep, processed, version, level) ==
    IF ~file.symbol_ok THEN Pass("not_built", file, prep, processed, version, level)
    ELSE IF ~file.save_ok THEN Pass("not_saved", file, prep, processed, version, level)
    ELSE Pass("saved", file, prep, processed, version, level)

\* Lines 444-450.
batch_encode(st, file, prep, processed) ==
    IF processed = None THEN Pass("not_encoded", file, prep, processed, 0, "")
    ELSE batch_build(st, file, prep, processed, qr_version(st, prep.data), error_corr(st))

batch_prepared(st, file, prep) ==
    IF ~prep.ok THEN Pass("raised", file, prep, None, 0, "")
    ELSE batch_encode(st, file, prep, process_data(prep.data, st.compression, 0))

\* The body of the for loop for one file, lines 422-464.
batch_file(st, file) ==
    IF ~file.readable THEN Pass("unreadable", file, PrepareRaised, None, 0, "")
    ELSE IF strip(file.text) = << >> THEN Pass("empty", file, PrepareRaised, None, 0, "")
    ELSE batch_prepared(st, file, batch_prepare(strip(file.text), st))

\* f.lower().endswith((".txt", ".json"))
is_input(file) == file.ext \in {"txt", "json"}

\* The settings of a batch: those batch_generate_qr reads.
BatchSettings ==
    [compression : {"none", "cbor"},
     extract_essential : {TRUE},
     debug : BOOLEAN,
     auto_version : {TRUE},
     error_correction : {"M"},
     output_format : {"png"},
     auto_save : {TRUE}]

\* What a file can be: plain text, a JSON object, a JSON list, blank,
\* unreadable, one the symbol cannot be built for, one that cannot be saved.
FileKinds ==
    { [text |-> <<104, 101, 108, 108, 111>>, readable |-> TRUE, symbol_ok |-> TRUE, save_ok |-> TRUE],
      [text |-> <<123, 34, 97, 34, 58, 32, 49, 125>>, readable |-> TRUE, symbol_ok |-> TRUE, save_ok |-> TRUE],
      [text |-> <<91, 49, 93>>, readable |-> TRUE, symbol_ok |-> TRUE, save_ok |-> TRUE],
      [text |-> <<32, 10>>, readable |-> TRUE, symbol_ok |-> TRUE, save_ok |-> TRUE],
      [text |-> << >>, readable |-> FALSE, symbol_ok |-> TRUE, save_ok |-> TRUE],
      [text |-> <<104, 101, 108, 108, 111>>, readable |-> TRUE, symbol_ok |-> FALSE, save_ok |-> TRUE],
      [text |-> <<104, 101, 108, 108, 111>>, readable |-> TRUE, symbol_ok |-> TRUE, save_ok |-> FALSE] }

\* The names of the input files in a folder: a.txt, a.json and b.txt.
FileNames ==
    { [base |-> "a", ext |-> "txt"], [base |-> "a", ext |-> "json"],
      [base |-> "b", ext |-> "txt"] }

\* The files a folder can hold; notes.md is none of the batch's inputs.
Files ==
    {name @@ kind : name \in FileNames, kind \in FileKinds}
        \cup {[base |-> "notes", ext |-> "md", text |-> <<104, 105>>, readable |-> TRUE,
                symbol_ok |-> TRUE, save_ok |-> TRUE]}

MaxFiles == 2

\* What os.listdir gives: the files in any order, no name twice.
Folders ==
    UNION {{folder \in [1..n -> Files] :
               \A i, j \in 1..n :
                   i # j => <<folder[i].base, folder[i].ext>> # <<folder[j].base, folder[j].ext>>} :
           n \in 0..MaxFiles}


(***************************************************************************)
(* State                                                                   *)
(***************************************************************************)

VARIABLES
    pc,             \* "input", "encoded", "failed", "scanned", "done"
    payload,        \* the text entered
    enc_method,     \* the method process_data was called with; "unset" before
    encoded,        \* what process_data returned
    wire,           \* the string handed to decompress_data
    dec_method,     \* the method decompress_data was called with
    decoded,        \* what decompress_data returned
    sel_pc,         \* "idle", "selected"
    sel_text,       \* the text whose version is selected
    sel_level,      \* the error correction level
    sel_version,    \* what determine_optimal_qr_version returned; 0 before
    previous,       \* the selection before this one, when set
    svg_pc,         \* "made", "written", "optimised", "saved", "failed"
    modules,        \* qr.modules, the matrix generate_svg is given
    svg_file,       \* the file at save_path
    svg_log,        \* the levels of the lines logged, in order
    dialog,         \* the message box shown: "none", "Success", "Error"
    q_pc,           \* "image", "assessed"
    image,          \* the picture check_qr_quality is given
    report,         \* the metrics check_qr_quality reports
    t_pc,           \* "ticket", "encoded"
    ticket,         \* the JSON string encode_ticket_details_to_cbor is given
    use_b64,        \* its parameter use_base64
    ticket_out,     \* what encode_ticket_details_to_cbor returned
    gui_pc,         \* where the handler of the button pressed is
    gui_in,         \* the settings, the files and what the environment does
    gui_out,        \* what the handler has done so far
    display         \* the text of the display_text widget

codec_vars == <<pc, payload, enc_method, encoded, wire, dec_method, decoded>>

selector_vars == <<sel_pc, sel_text, sel_level, sel_version, previous>>

svg_vars == <<svg_pc, modules, svg_file, svg_log, dialog>>

quality_vars == <<q_pc, image, report>>

ticket_vars == <<t_pc, ticket, use_b64, ticket_out>>

gui_vars == <<gui_pc, gui_in, gui_out, display>>

vars == <<pc, payload, enc_method, encoded, wire, dec_method, decoded,
          sel_pc, sel_text, sel_level, sel_version, previous,
          svg_pc, modules, svg_file, svg_log, dialog,
          q_pc, image, report, t_pc, ticket, use_b64, ticket_out,
          gui_pc, gui_in, gui_out, display>>

NoPrevious == [set |-> FALSE, text |-> [ch |-> 65, n |-> 0], version |-> 0]

CodecIdle ==
    /\ pc = "input"
    /\ payload = << >>
    /\ enc_method = "unset"
    /\ encoded = None
    /\ wire = << >>
    /\ dec_method = "unset"
    /\ decoded = None

SelectorIdle ==
    /\ sel_pc = "idle"
    /\ sel_text = [ch |-> 65, n |-> 0]
    /\ sel_level = "M"
    /\ sel_version = 0
    /\ previous = NoPrevious

NoFile == [exists |-> FALSE, doc |-> svg_tree(0, << >>), minified |-> FALSE]

SvgIdle ==
    /\ svg_pc = "made"
    /\ modules = <<<<FALSE>>>>
    /\ svg_file = NoFile
    /\ svg_log = << >>
    /\ dialog = "none"

NoReport == [contrast |-> [num |-> 0, den |-> 1],
             quiet_zone_present |-> FALSE,
             data_density |-> [num |-> 0, den |-> 1],
             readability_score |-> [num |-> 0, den |-> 1]]

QualityIdle ==
    /\ q_pc = "image"
    /\ image = [mode |-> "L", pixels |-> <<<<255>>>>]
    /\ report = NoReport

TicketIdle ==
    /\ t_pc = "ticket"
    /\ ticket = << >>
    /\ use_b64 = TRUE
    /\ ticket_out = None

GuiIdle ==
    /\ gui_pc = "idle"
    /\ gui_in = [handler |-> "none"]
    /\ gui_out = [handler |-> "none"]
    /\ display = << >>

(***************************************************************************)
(* The codec: a text is encoded by process_data or arrives from a scan,    *)
(* and is then decoded by decompress_data.                                 *)
(***************************************************************************)

InitCodec ==
    /\ pc = "input"
    /\ payload \in Inputs
    /\ enc_method = "unset"
    /\ encoded = None
    /\ wire = << >>
    /\ dec_method = "unset"
    /\ decoded = None
    /\ SelectorIdle
    /\ SvgIdle
    /\ QualityIdle
    /\ TicketIdle
    /\ GuiIdle

\* process_data(payload, m); the caller shows an error when it returns None.
Encode(m, mtime) ==
    /\ pc = "input"
    /\ encoded' = process_data(payload, m, mtime)
    /\ pc' = IF encoded'.kind = "str" THEN "encoded" ELSE "failed"
    /\ wire' = IF encoded'.kind = "str" THEN encoded'.val ELSE wire
    /\ enc_method' = m
    /\ UNCHANGED <<payload, dec_method, decoded>>
    /\ UNCHANGED <<selector_vars, svg_vars, quality_vars, ticket_vars, gui_vars>>

\* The text comes from a scanned or pasted code that process_data did not
\* write.
Scan ==
    /\ pc = "input"
    /\ wire' = payload
    /\ pc' = "scanned"
    /\ UNCHANGED <<payload, enc_method, encoded, dec_method, decoded>>
    /\ UNCHANGED <<selector_vars, svg_vars, quality_vars, ticket_vars, gui_vars>>

\* decompress_data(wire, dm)
Decode(dm) ==
    /\ pc \in {"encoded", "scanned"}
    /\ decoded' = decompress_data(wire, dm)
    /\ dec_method' = dm
    /\ pc' = "done"
    /\ UNCHANGED <<payload, enc_method, encoded, wire>>
    /\ UNCHANGED <<selector_vars, svg_vars, quality_vars, ticket_vars, gui_vars>>

NextCodec ==
    \/ \E m \in EncodeMethods, mtime \in Clock : Encode(m, mtime)
    \/ Scan
    \/ \E dm \in DecodeMethods : Decode(dm)

SpecCodec == InitCodec /\ [][NextCodec]_vars

(***************************************************************************)
(* The selector: a version is selected for a text, then for a longer text  *)
(* at the same level.                                                      *)
(***************************************************************************)

InitSelect ==
    /\ sel_pc = "idle"
    /\ sel_text \in SelectorTexts
    /\ sel_level \in LevelInputs
    /\ sel_version = 0
    /\ previous = NoPrevious
    /\ CodecIdle
    /\ SvgIdle
    /\ QualityIdle
    /\ TicketIdle
    /\ GuiIdle

SelectVersion ==
    /\ sel_pc = "idle"
    /\ sel_version' = determine_optimal_qr_version(sel_text, "none", sel_level)
    /\ sel_pc' = "selected"
    /\ UNCHANGED <<sel_text, sel_level, previous>>
    /\ UNCHANGED <<codec_vars, svg_vars, quality_vars, ticket_vars, gui_vars>>

\* The text is replaced by one of k more bytes, made of character ch; the
\* selection made is kept.
NextPayload(ch, k) ==
    /\ sel_pc = "selected"
    /\ ~previous.set
    /\ data_length(sel_text) + k <= MaxBytes
    /\ (data_length(sel_text) + k) % Len(utf8_char(ch)) = 0
    /\ previous' = [set |-> TRUE, text |-> sel_text, version |-> sel_version]
    /\ sel_text' = [ch |-> ch, n |-> (data_length(sel_text) + k) \div Len(utf8_char(ch))]
    /\ sel_version' = 0
    /\ sel_pc' = "idle"
    /\ UNCHANGED sel_level
    /\ UNCHANGED <<codec_vars, svg_vars, quality_vars, ticket_vars, gui_vars>>

NextSelect ==
    \/ SelectVersion
    \/ \E ch \in SelectorChars, k \in 1..MaxGrow : NextPayload(ch, k)

SpecSelect == InitSelect /\ [][NextSelect]_vars

(***************************************************************************)
(* The SVG branch of gui.generate_qr: generate_svg writes the document,    *)
(* optimise_svg runs the svgo command on it, the success is reported.      *)
(***************************************************************************)

InitSvg ==
    /\ svg_pc = "made"
    /\ modules \in Matrices
    /\ svg_file = NoFile
    /\ svg_log = << >>
    /\ dialog = "none"
    /\ CodecIdle
    /\ SelectorIdle
    /\ QualityIdle
    /\ TicketIdle
    /\ GuiIdle

\* generate_svg(qr_obj, save_path); when tree.write raises, the except of
\* generate_qr logs the error and shows it.
GenerateSvg(written) ==
    /\ svg_pc = "made"
    /\ svg_file' = IF written
                   THEN [exists |-> TRUE, doc |-> generate_svg(modules), minified |-> FALSE]
                   ELSE svg_file
    /\ svg_log' = IF written THEN svg_log ELSE Append(svg_log, "error")
    /\ dialog' = IF written THEN dialog ELSE "Error"
    /\ svg_pc' = IF written THEN "written" ELSE "failed"
    /\ UNCHANGED modules
    /\ UNCHANGED <<codec_vars, selector_vars, quality_vars, ticket_vars, gui_vars>>

\* optimise_svg(save_path), then the debug line "saved successfully"; an
\* exception leaving optimise_svg would reach the except of generate_qr.
OptimiseSvg(outcome) ==
    /\ svg_pc = "written"
    /\ svg_file' = optimise_svg(svg_file, outcome).file
    /\ svg_log' = IF optimise_svg(svg_file, outcome).raised
                  THEN Append(svg_log, "error")
                  ELSE svg_log \o <<optimise_svg(svg_file, outcome).log, "debug">>
    /\ dialog' = IF optimise_svg(svg_file, outcome).raised THEN "Error" ELSE dialog
    /\ svg_pc' = IF optimise_svg(svg_file, outcome).raised THEN "failed" ELSE "optimised"
    /\ UNCHANGED modules
    /\ UNCHANGED <<codec_vars, selector_vars, quality_vars, ticket_vars, gui_vars>>

\* messagebox.showinfo("Success", ...)
ShowSuccess ==
    /\ svg_pc = "optimised"
    /\ dialog' = "Success"
    /\ svg_pc' = "saved"
    /\ UNCHANGED <<modules, svg_file, svg_log>>
    /\ UNCHANGED <<codec_vars, selector_vars, quality_vars, ticket_vars, gui_vars>>

\* optimise_svg(save_path) with an svgo process that never exits:
\* subprocess.run is called without a timeout and waits for it, so the call
\* does not return and nothing after it runs.
OptimiseSvgWaits ==
    /\ svg_pc = "written"
    /\ svg_pc' = "waiting"
    /\ UNCHANGED <<modules, svg_file, svg_log, dialog>>
    /\ UNCHANGED <<codec_vars, selector_vars, quality_vars, ticket_vars, gui_vars>>

NextSvg ==
    \/ \E written \in BOOLEAN : GenerateSvg(written)
    \/ \E outcome \in SvgoOutcomes : OptimiseSvg(outcome)
    \/ OptimiseSvgWaits
    \/ ShowSuccess

SpecSvg == InitSvg /\ [][NextSvg]_vars

\* The handler runs on once started: every step that can be taken is taken.
SpecSvgFair == SpecSvg /\ WF_vars(NextSvg)


(***************************************************************************)
(* The quality check of a picture                                          *)
(***************************************************************************)

InitQuality ==
    /\ q_pc = "image"
    /\ image \in Images
    /\ report = NoReport
    /\ CodecIdle
    /\ SelectorIdle
    /\ SvgIdle
    /\ TicketIdle
    /\ GuiIdle

CheckQuality ==
    /\ q_pc = "image"
    /\ report' = check_qr_quality(image)
    /\ q_pc' = "assessed"
    /\ UNCHANGED image
    /\ UNCHANGED <<codec_vars, selector_vars, svg_vars, ticket_vars, gui_vars>>

\* Another picture is assessed.
NextImage ==
    /\ q_pc = "assessed"
    /\ q_pc' = "image"
    /\ report' = NoReport
    /\ image' \in {Blot(image.mode, 1, 1, p, 1, 1, p) : p \in Palette(image.mode)}
    /\ UNCHANGED <<codec_vars, selector_vars, svg_vars, ticket_vars, gui_vars>>

NextQuality == CheckQuality \/ NextImage

SpecQuality == InitQuality /\ [][NextQuality]_vars


(***************************************************************************)
(* The ticket encoder                                                      *)
(***************************************************************************)

InitTicket ==
    /\ t_pc = "ticket"
    /\ ticket \in TicketTexts
    /\ use_b64 = TRUE
    /\ ticket_out = None
    /\ CodecIdle
    /\ SelectorIdle
    /\ SvgIdle
    /\ QualityIdle
    /\ GuiIdle

\* encode_ticket_details_to_cbor(ticket, use_base64)
EncodeTicket(use_base64) ==
    /\ t_pc = "ticket"
    /\ use_b64' = use_base64
    /\ ticket_out' = encode_ticket_details_to_cbor(ticket, use_base64)
    /\ t_pc' = "encoded"
    /\ UNCHANGED ticket
    /\ UNCHANGED <<codec_vars, selector_vars, svg_vars, quality_vars, gui_vars>>

NextTicket == \E use_base64 \in BOOLEAN : EncodeTicket(use_base64)

SpecTicket == InitTicket /\ [][NextTicket]_vars

(***************************************************************************)
(* The decoder on a scanned code: gui.decode_qr and the test window hand   *)
(* the text read from a picture to decompress_data.                        *)
(***************************************************************************)

InitDecode ==
    /\ pc = "scanned"
    /\ payload \in ScannedTexts
    /\ wire = payload
    /\ enc_method = "unset"
    /\ encoded = None
    /\ dec_method = "unset"
    /\ decoded = None
    /\ SelectorIdle
    /\ SvgIdle
    /\ QualityIdle
    /\ TicketIdle
    /\ GuiIdle

NextDecode == \E dm \in DecodeMethods : Decode(dm)

SpecDecode == InitDecode /\ [][NextDecode]_vars


(***************************************************************************)
(* The button "Decode QR Image": gui.decode_qr                             *)
(***************************************************************************)

InitDecodeQr ==
    /\ gui_pc = "idle"
    /\ gui_in \in {[handler |-> "decode_qr", chosen |-> chosen, picture |-> picture] :
                      chosen \in BOOLEAN, picture \in Pictures}
    /\ gui_out = [handler |-> "none"]
    /\ display = << >>
    /\ CodecIdle
    /\ SelectorIdle
    /\ SvgIdle
    /\ QualityIdle
    /\ TicketIdle

\* decode_qr()
DecodeQr ==
    /\ gui_pc = "idle"
    /\ gui_out' = [handler |-> "decode_qr", before |-> display]
                      @@ decode_qr(gui_in.chosen, gui_in.picture, display)
    /\ display' = gui_out'.display
    /\ gui_pc' = "done"
    /\ UNCHANGED gui_in
    /\ UNCHANGED <<codec_vars, selector_vars, svg_vars, quality_vars, ticket_vars>>

\* The button is pressed again, for another file.
AnotherPicture(chosen, picture) ==
    /\ gui_pc = "done"
    /\ gui_in' = [handler |-> "decode_qr", chosen |-> chosen, picture |-> picture]
    /\ gui_pc' = "idle"
    /\ UNCHANGED <<gui_out, display>>
    /\ UNCHANGED <<codec_vars, selector_vars, svg_vars, quality_vars, ticket_vars>>

NextDecodeQr ==
    \/ DecodeQr
    \/ \E chosen \in BOOLEAN, picture \in Pictures : AnotherPicture(chosen, picture)

SpecDecodeQr == InitDecodeQr /\ [][NextDecodeQr]_vars


(***************************************************************************)
(* The buttons "Generate QR Code" and "Batch Generate QR Codes"            *)
(***************************************************************************)

InitGenerate ==
    /\ gui_pc = "idle"
    /\ gui_in \in {[handler |-> "generate_qr", st |-> st, env |-> env] :
                      st \in Settings, env \in Environments}
                 \cup {[handler |-> "batch_generate_qr", st |-> st, chosen |-> TRUE,
                        folder |-> folder] : st \in BatchSettings, folder \in Folders}
                 \cup {[handler |-> "batch_generate_qr", st |-> st, chosen |-> FALSE,
                        folder |-> << >>] : st \in BatchSettings}
    /\ gui_out = [handler |-> "none"]
    /\ display = << >>
    /\ CodecIdle
    /\ SelectorIdle
    /\ SvgIdle
    /\ QualityIdle
    /\ TicketIdle

\* generate_qr()
GenerateQr ==
    /\ gui_pc = "idle"
    /\ gui_in.handler = "generate_qr"
    /\ gui_out' = [handler |-> "generate_qr"] @@ generate_qr(gui_in.st, gui_in.env)
    /\ gui_pc' = "done"
    /\ UNCHANGED <<gui_in, display>>
    /\ UNCHANGED <<codec_vars, selector_vars, svg_vars, quality_vars, ticket_vars>>

(***************************************************************************)
(* The button "Batch Generate QR Codes": gui.batch_generate_qr, one step   *)
(* for the lines before the loop, one for each pass of the loop, one for   *)
(* the report after it.                                                    *)
(***************************************************************************)

\* The files of the folder the loop runs over, line 414.
InputFiles(folder) == SelectSeq(folder, is_input)

\* Lines 410-420.
BatchStart ==
    /\ gui_pc = "idle"
    /\ gui_in.handler = "batch_generate_qr"
    /\ gui_out' = [handler |-> "batch_generate_qr",
                   files |-> InputFiles(gui_in.folder),
                   passes |-> << >>,
                   count |-> 0,
                   pictures |-> {},
                   dialogs |-> IF ~gui_in.chosen THEN <<"Error">>
                               ELSE IF InputFiles(gui_in.folder) = << >> THEN <<"Info">>
                               ELSE << >>,
                   raised |-> FALSE]
    /\ gui_pc' = IF gui_in.chosen /\ InputFiles(gui_in.folder) # << >> THEN "loop" ELSE "done"
    /\ UNCHANGED <<gui_in, display>>
    /\ UNCHANGED <<codec_vars, selector_vars, svg_vars, quality_vars, ticket_vars>>

\* One pass of the loop, lines 421-464; an exception nothing catches ends
\* the handler.
BatchFile ==
    /\ gui_pc = "loop"
    /\ Len(gui_out.passes) < Len(gui_out.files)
    /\ \E pass \in {batch_file(gui_in.st, gui_out.files[Len(gui_out.passes) + 1])} :
           /\ gui_out' = [gui_out EXCEPT
                  !.passes = Append(@, pass),
                  !.count = IF pass.result = "saved" THEN @ + 1 ELSE @,
                  !.pictures = IF pass.result = "saved" THEN @ \cup {pass.name} ELSE @,
                  !.raised = pass.result = "raised"]
           /\ gui_pc' = IF pass.result = "raised" THEN "done" ELSE "loop"
    /\ UNCHANGED <<gui_in, display>>
    /\ UNCHANGED <<codec_vars, selector_vars, svg_vars, quality_vars, ticket_vars>>

\* Line 465: messagebox.showinfo with the count.
BatchReport ==
    /\ gui_pc = "loop"
    /\ Len(gui_out.passes) = Len(gui_out.files)
    /\ gui_out' = [gui_out EXCEPT !.dialogs = Append(@, "Info")]
    /\ gui_pc' = "done"
    /\ UNCHANGED <<gui_in, display>>
    /\ UNCHANGED <<codec_vars, selector_vars, svg_vars, quality_vars, ticket_vars>>

NextGenerate == GenerateQr \/ BatchStart \/ BatchFile \/ BatchReport

SpecGenerate == InitGenerate /\ [][NextGenerate]_vars


(***************************************************************************)
(* Properties of the codec                                                 *)
(***************************************************************************)

\* The bytes decompress_data works on once the Base64 check has passed.
WireBytes == b64decode(utf8_encode(wire)).val

RECURSIVE HasConstant(_)
\* The value holds NaN or an infinity somewhere.
HasConstant(v) ==
    \/ v.t = "float"
    \/ v.t = "list" /\ \E i \in 1..Len(v.items) : HasConstant(v.items[i])
    \/ v.t = "dict" /\ \E i \in 1..Len(v.items) : HasConstant(v.items[i].v)

\* The text is JSON: json.loads reads it, and without the constants NaN,
\* Infinity and -Infinity, which JSON does not have.
IsJsonText(s) == json_loads(s).ok /\ ~HasConstant(json_loads(s).val)

\* C1: a text encoded with zlib or gzip and decoded with "auto" comes back
\* exactly.
RoundTripCompressed ==
    (pc = "done" /\ enc_method \in {"zlib", "gzip"} /\ dec_method = "auto")
        => decoded = Str(payload)

\* A text with a two-byte character went through gzip and came back.
RoundTripCompressedWitness ==
    /\ pc = "done"
    /\ enc_method = "gzip"
    /\ dec_method = "auto"
    /\ \E i \in 1..Len(payload) : payload[i] = 233
    /\ auto_detect(WireBytes) = "gzip"
    /\ decoded = Str(payload)

\* C2: a JSON text encoded with cbor and decoded with "auto" gives a text that
\* parses to the value the JSON text parses to.
CborRoundTrip ==
    (pc = "done" /\ enc_method = "cbor" /\ dec_method = "auto" /\ IsJsonText(payload))
        => /\ decoded.kind = "str"
           /\ json_loads(decoded.val).ok
           /\ json_loads(decoded.val).val = json_loads(payload).val

\* C3: with method "none" process_data returns the text as it is and
\* decompress_data returns its input as it is, whatever the input looks like.
NonePassthrough ==
    /\ (pc \in {"encoded", "done"} /\ enc_method = "none") => encoded = Str(payload)
    /\ (pc = "done" /\ dec_method = "none") => decoded = Str(wire)
    /\ (pc = "done" /\ enc_method = "none" /\ dec_method = "none") => decoded = Str(payload)

\* A text that passes the Base64 check and starts, decoded, with the gzip
\* signature went through "none" both ways unchanged.
NonePassthroughWitness ==
    /\ pc = "done"
    /\ enc_method = "none"
    /\ dec_method = "none"
    /\ is_base64_string(payload)
    /\ auto_detect(b64decode(utf8_encode(payload)).val) = "gzip"
    /\ decoded = Str(payload)

\* C4: with zlib, gzip or cbor, whatever string process_data returns passes
\* is_base64_string (its only other result is None, for cbor on a text
\* json.loads rejects).
Base64Invariant ==
    (pc \in {"encoded", "done"} /\ enc_method \in {"zlib", "gzip", "cbor"})
        => encoded.kind = "str" /\ is_base64_string(encoded.val)

\* A cbor encoding that ends in '=' padding passes the check.
Base64InvariantWitness ==
    /\ pc = "encoded"
    /\ enc_method = "cbor"
    /\ encoded.kind = "str"
    /\ encoded.val # << >>
    /\ encoded.val[Len(encoded.val)] = 61
    /\ is_base64_string(encoded.val)

\* C5: decompress_data returns a string for every input and every method.
DecodeNeverRaises == pc = "done" => decoded.kind = "str"

\* The final try raised (a zlib header with no stream behind it, a
\* decompressed text that is not UTF-8, ...) and a string was returned.
DecodeNeverRaisesWitness ==
    /\ pc = "done"
    /\ dec_method \in {"zlib", "gzip", "cbor", "auto"}
    /\ is_base64_string(wire)
    /\ apply_method(resolve(dec_method, WireBytes), WireBytes).kind = "raise"
    /\ decoded = Str(utf8_decode_replace(WireBytes))

\* C6: with cbor, a text that is not JSON makes process_data return None, and
\* no encoded string.
StrictCborEncode ==
    (pc \in {"encoded", "failed", "done"} /\ enc_method = "cbor" /\ ~IsJsonText(payload))
        => encoded = None

\* C13: a text encoded with "none" and decoded with "auto" comes back
\* exactly.
PlainAutoRoundTrip ==
    (pc = "done" /\ enc_method = "none" /\ dec_method = "auto") => decoded = Str(payload)

\* C14: with a method other than "none", a text that fails the Base64 check
\* is returned unchanged.
NonBase64Fallback ==
    (pc = "done" /\ dec_method # "none") => (decoded = Str(wire) \/ is_base64_string(wire))

\* A text with white space at both ends that fails the check was decoded with
\* "zlib" and came back with its white space.
NonBase64FallbackWitness ==
    /\ pc = "done"
    /\ dec_method = "zlib"
    /\ wire = <<32, 91, 10, 49, 9, 44, 13, 50, 32, 93, 10>>
    /\ ~is_base64_string(wire)
    /\ decoded = Str(wire)

(***************************************************************************)
(* Properties of the selector                                              *)
(***************************************************************************)

\* C7: at a level of the table, the version returned is the smallest whose
\* capacity holds the byte length; one whose capacity does not hold it is 40.
CapacityBoundary ==
    (sel_pc = "selected" /\ sel_level \in Levels)
        => /\ sel_version \in 1..40
           /\ \A u \in 1..(sel_version - 1) :
                  qr_capacity[sel_level][u] < data_length(sel_text)
           /\ qr_capacity[sel_level][sel_version] < data_length(sel_text)
                  => sel_version = 40

\* 38 euro signs are 114 bytes, the capacity of version 4 at level L.
CapacityBoundaryWitness ==
    /\ sel_pc = "selected"
    /\ sel_level = "L"
    /\ sel_text = [ch |-> 8364, n |-> 38]
    /\ data_length(sel_text) = qr_capacity["L"][4]
    /\ sel_version = 4

\* C8: a byte length above the capacity of version 40 gives 40; at level M
\* both 3391 and 3392 bytes give 40.
SaturatingFallback ==
    (sel_pc = "selected" /\ sel_level \in Levels)
        => /\ data_length(sel_text) > qr_capacity[sel_level][40] => sel_version = 40
           /\ (sel_level = "M" /\ data_length(sel_text) \in {3391, 3392})
                  => sel_version = 40

\* 3392 bytes at level M: one more than version 40 holds.
SaturatingFallbackWitness ==
    /\ sel_pc = "selected"
    /\ sel_level = "M"
    /\ data_length(sel_text) = 3392
    /\ data_length(sel_text) > qr_capacity["M"][40]
    /\ sel_version = 40

\* C9: at one level, the version selected for a text is at most the version
\* selected for a text of more bytes.  The two texts are up to MaxGrow bytes
\* apart and every length up to MaxBytes is the shorter one of such a pair,
\* so the order carries over to texts any distance apart.
MonotonicSizing ==
    (sel_pc = "selected" /\ previous.set
        /\ data_length(previous.text) < data_length(sel_text))
        => previous.version <= sel_version

\* From one-byte characters to fewer three-byte characters of more bytes,
\* across a capacity: the version went up.
MonotonicSizingWitness ==
    /\ sel_pc = "selected"
    /\ previous.set
    /\ previous.text.ch = 65
    /\ sel_text.ch = 8364
    /\ char_length(sel_text) < char_length(previous.text)
    /\ data_length(previous.text) < data_length(sel_text)
    /\ previous.version < sel_version

\* The capacities of byte mode in ISO/IEC 18004, versions 1 to 40.
StandardByteCapacity ==
    [L |-> <<17, 32, 53, 78, 106, 134, 154, 192, 230, 271, 321, 367, 425, 458, 520, 586,
             644, 718, 792, 858, 929, 1003, 1091, 1171, 1273, 1367, 1465, 1528, 1628,
             1732, 1840, 1952, 2068, 2188, 2303, 2431, 2563, 2699, 2809, 2953>>,
     M |-> <<14, 26, 42, 62, 84, 106, 122, 152, 180, 213, 251, 287, 331, 362, 412, 450,
             504, 560, 624, 666, 711, 779, 857, 911, 997, 1059, 1125, 1190, 1264, 1370,
             1452, 1538, 1628, 1722, 1809, 1911, 1989, 2099, 2213, 2331>>,
     Q |-> <<11, 20, 32, 46, 60, 74, 86, 108, 130, 151, 177, 203, 241, 258, 292, 322,
             364, 394, 442, 482, 509, 565, 611, 661, 715, 751, 805, 868, 908, 982, 1030,
             1112, 1168, 1228, 1283, 1351, 1423, 1499, 1579, 1663>>,
     H |-> <<7, 14, 24, 34, 44, 58, 64, 84, 98, 119, 137, 155, 177, 194, 220, 250, 280,
             310, 338, 382, 403, 439, 461, 511, 535, 593, 625, 658, 698, 742, 790, 842,
             898, 958, 983, 1051, 1093, 1139, 1219, 1273>>]

\* C10: the table the selector reads holds, at each level and version, the
\* capacity of byte mode in the QR standard.
CapacityTableIsStandard ==
    (sel_pc = "selected" /\ sel_level \in Levels)
        => \A v \in 1..40 : capacities(sel_level)[v] = StandardByteCapacity[sel_level][v]

(***************************************************************************)
(* Properties of the SVG writer                                            *)
(***************************************************************************)

\* The commands of the path elements of the file written, in order.
DrawnCommands ==
    ConcatRange([i \in 1..Len(svg_file.doc.children) |-> svg_file.doc.children[i].d],
                1, Len(svg_file.doc.children))

\* The cells <<column, row>> the rectangle of a command covers: from the
\* point moved to, h to the right and v down.
CellsOf(c) == {<<c.M_x + i, c.M_y + j>> : i \in 0..(c.h - 1), j \in 0..(c.v - 1)}

DarkCells ==
    {<<x, y>> \in (0..(Len(modules) - 1)) \X (0..(Len(modules) - 1)) : modules[y + 1][x + 1]}

\* The matrix of the given size whose dark cells are those the commands cover.
Rebuilt(size, cmds) ==
    [y \in 1..size |-> [x \in 1..size |->
        \E i \in 1..Len(cmds) : <<x - 1, y - 1>> \in CellsOf(cmds[i])]]

\* C11: the runs generate_svg emits cover exactly the dark cells, no cell
\* twice, each run is one module high and closes back on its start, and the
\* matrix rebuilt from the runs is the original matrix.
CompactionComplete ==
    svg_file.exists =>
        /\ UNION {CellsOf(DrawnCommands[i]) : i \in 1..Len(DrawnCommands)} = DarkCells
        /\ \A i, j \in 1..Len(DrawnCommands) :
               i # j => CellsOf(DrawnCommands[i]) \cap CellsOf(DrawnCommands[j]) = {}
        /\ \A i \in 1..Len(DrawnCommands) :
               /\ DrawnCommands[i].v = 1
               /\ DrawnCommands[i].h >= 1
               /\ DrawnCommands[i].h_back = 0 - DrawnCommands[i].h
        /\ Rebuilt(Len(modules), DrawnCommands) = modules

\* A matrix with two runs in one row, and with a light and a dark cell on
\* unequal sides of the diagonal, was written.
CompactionCompleteWitness ==
    /\ svg_file.exists
    /\ Len(modules) = 3
    /\ modules[1] = <<TRUE, FALSE, TRUE>>
    /\ modules[2] = <<TRUE, TRUE, FALSE>>
    /\ Len(DrawnCommands) >= 3
    /\ DrawnCommands[1] = path_command(0, 0, 1)
    /\ DrawnCommands[2] = path_command(2, 0, 1)
    /\ DrawnCommands[3] = path_command(0, 1, 2)


(***************************************************************************)
(* Properties of the quality check                                         *)
(***************************************************************************)

\* Every pixel of the picture has all its bands at v.
AllPixels(v) ==
    \A r \in 1..Len(image.pixels) : \A c \in 1..Len(image.pixels[r]) :
        \A k \in 1..Len(image.pixels[r][c]) : image.pixels[r][c][k] = v

\* C12: an all-white picture has data density 0, its quiet zone present and
\* readability score 100; an all-black picture has data density 1, its quiet
\* zone missing and readability score 20.
QualityDegenerate ==
    q_pc = "assessed" =>
        /\ AllPixels(255) =>
               /\ report.data_density.num = 0
               /\ report.quiet_zone_present
               /\ report.readability_score.num = 100 * report.readability_score.den
        /\ AllPixels(0) =>
               /\ report.data_density.num = report.data_density.den
               /\ ~report.quiet_zone_present
               /\ report.readability_score.num = 20 * report.readability_score.den

\* An all-black RGB picture with a pixel off the border was assessed.
QualityDegenerateWitness ==
    /\ q_pc = "assessed"
    /\ AllPixels(0)
    /\ image.mode = "RGB"
    /\ Len(image.pixels) = 3
    /\ Len(image.pixels[1]) = 3
    /\ report.data_density = [num |-> 9, den |-> 9]
    /\ report.readability_score = [num |-> 180, den |-> 9]


\* C15: once the document is written, a failing svgo command is only logged:
\* the pipeline does not fail, the document written stays as it was, and the
\* success is reported as after a successful minification.
MinifyFailureNonFatal ==
    /\ svg_file.exists => (svg_pc # "failed" /\ dialog # "Error")
    /\ (svg_pc \in {"optimised", "saved"} /\ ~svg_file.minified) =>
           /\ svg_file = [exists |-> TRUE, doc |-> generate_svg(modules), minified |-> FALSE]
           /\ svg_log = <<"error", "debug">>
    /\ svg_pc = "saved" => dialog = "Success"

\* The svgo command failed and the success was reported.
MinifyFailureNonFatalWitness ==
    /\ svg_pc = "saved"
    /\ svg_file.exists
    /\ ~svg_file.minified
    /\ svg_log = <<"error", "debug">>
    /\ dialog = "Success"

\* The path elements of the document written.
PathElements ==
    SelectSeq(svg_file.doc.children, LAMBDA e : e.tag = "path")

UnknownLevelAsM ==
    (sel_pc = "selected" /\ sel_level \notin Levels)
        => /\ sel_version \in 1..40
           /\ sel_version = determine_optimal_qr_version(sel_text, "none", "M")

\* 21 bytes at level "X": version 2 as at level M, where level L gives 1.
UnknownLevelAsMWitness ==
    /\ sel_pc = "selected"
    /\ sel_level = "X"
    /\ data_length(sel_text) = 21
    /\ sel_version = 2
    /\ determine_optimal_qr_version(sel_text, "none", "L") = 1


(***************************************************************************)
(* Properties of the ticket encoder                                        *)
(***************************************************************************)

\* The ticket parses and its extract can be taken.
Extractable == json_loads(ticket).ok /\ extract_essential_ticket_details(json_loads(ticket).val).ok

Extract == extract_essential_ticket_details(json_loads(ticket).val).val

\* What Base64-decoding and then CBOR-decoding the string returned gives.
TicketRead == cbor2_loads(b64decode(utf8_encode(ticket_out.val)).val)

EssentialKeys ==
    { VStr(Key.provider), VStr(Key.ticket_id), VStr(Key.ticket_type),
      VStr(Key.departure_time), VStr(Key.arrival_time), VStr(Key.train), VStr(Key.from),
      VStr(Key.to), VStr(Key.coach), VStr(Key.seat), VStr(Key.class), VStr(Key.price),
      VStr(Key.status), VStr(Key.reference), VStr(Key.passenger), VStr(Key.security_hash) }

\* The string returned reads back as the extract, a mapping of the 16 keys.
ReadsBackAsExtract ==
    /\ ticket_out.kind = "str"
    /\ b64decode(utf8_encode(ticket_out.val)).ok
    /\ TicketRead = Ok(Extract)
    /\ Len(TicketRead.val.items) = 16
    /\ {TicketRead.val.items[i].k : i \in 1..16} = EssentialKeys

\* C18 as stated: with use_base64, a ticket that parses to an object whose
\* extract can be taken reads back as its extract; any other gives None.
TicketRoundTrip ==
    (t_pc = "encoded" /\ use_b64) =>
        IF Extractable THEN ReadsBackAsExtract ELSE ticket_out = None

\* C18, amended: None is also returned when the extract cannot be written as
\* CBOR; every other ticket whose extract can be taken reads back as it.
TicketRoundTripOrNone ==
    (t_pc = "encoded" /\ use_b64) =>
        IF Extractable /\ cbor_encodable(Extract)
        THEN ReadsBackAsExtract
        ELSE ticket_out = None

\* A ticket with a price, a currency and a holder read back: "115 EUR",
\* "John Doe".
TicketRoundTripOrNoneWitness ==
    /\ t_pc = "encoded"
    /\ use_b64
    /\ Extractable
    /\ ReadsBackAsExtract
    /\ get(TicketRead.val, Key.price, Empty) = VStr(<<49, 49, 53, 32, 69, 85, 82>>)
    /\ get(TicketRead.val, Key.passenger, Empty) = VStr(<<74, 111, 104, 110, 32, 68, 111, 101>>)
    /\ get(TicketRead.val, Key.from, Empty) = VStr(<<83, 116, 97, 116, 105, 111, 110, 32, 76>>)
    /\ get(TicketRead.val, Key.train, Empty) = VStr(<<49, 50, 32, 40, 68, 66, 41>>)


(***************************************************************************)
(* Properties of the decoder on scanned codes                              *)
(***************************************************************************)

GzipSignature(bs) == Len(bs) >= 2 /\ bs[1] = 31 /\ bs[2] = 139

ZlibSignature(bs) == Len(bs) >= 2 /\ bs[1] = 120 /\ bs[2] \in {1, 94, 156, 218}

\* C19: with method auto and Base64-valid input the method resolved is gzip
\* for bytes starting 1F 8B; else zlib for 78 01, 78 5E, 78 9C, 78 DA; else
\* cbor if the bytes parse as CBOR; else none; the text returned is what
\* that method gives, and bytes with a signature are never taken as CBOR.
AutoPriority ==
    (pc = "done" /\ dec_method = "auto" /\ is_base64_string(wire)) =>
        /\ GzipSignature(WireBytes) => resolve(dec_method, WireBytes) = "gzip"
        /\ (~GzipSignature(WireBytes) /\ ZlibSignature(WireBytes))
               => resolve(dec_method, WireBytes) = "zlib"
        /\ (~GzipSignature(WireBytes) /\ ~ZlibSignature(WireBytes))
               => resolve(dec_method, WireBytes) =
                      IF cbor2_loads(WireBytes).ok THEN "cbor" ELSE "none"
        /\ decoded = except_replace(apply_method(resolve(dec_method, WireBytes), WireBytes),
                                    WireBytes)

\* 78 01 61 is the CBOR text string "a" and starts with a zlib header: it is
\* resolved as zlib, fails to inflate, and comes back as its raw bytes.
AutoPriorityWitness ==
    /\ pc = "done"
    /\ dec_method = "auto"
    /\ wire = b64encode(<<120, 1, 97>>)
    /\ cbor2_loads(WireBytes).ok
    /\ resolve(dec_method, WireBytes) = "zlib"
    /\ decoded = Str(<<120, 1, 97>>)

\* C20: when the input is Base64-valid and the resolved method fails, the
\* text returned is the decoded bytes read as UTF-8 with replacement, not
\* the Base64 text.
LenientDegradation ==
    (/\ pc = "done"
     /\ dec_method # "none"
     /\ is_base64_string(wire)
     /\ apply_method(resolve(dec_method, WireBytes), WireBytes).kind = "raise")
        => /\ decoded = Str(utf8_decode_replace(WireBytes))
           /\ decoded # Str(wire)

\* A zlib stream of the byte E9 decoded with auto: it inflates, E9 is not
\* UTF-8, and the text returned is the stream's own bytes with replacement
\* characters.
LenientDegradationWitness ==
    /\ pc = "done"
    /\ dec_method = "auto"
    /\ wire = b64encode(zlib_compress(<<233>>))
    /\ zlib_decompress(WireBytes).ok
    /\ apply_method("zlib", WireBytes).kind = "raise"
    /\ decoded = Str(utf8_decode_replace(WireBytes))
    /\ 65533 \in {decoded.val[i] : i \in 1..Len(decoded.val)}


(***************************************************************************)
(* More properties of the SVG writer                                       *)
(***************************************************************************)

\* The module at column x of row y is dark; FALSE outside the matrix.
DarkAt(x, y) ==
    /\ y >= 0 /\ y < Len(modules)
    /\ x >= 0 /\ x < Len(modules[y + 1])
    /\ modules[y + 1][x + 1]

\* The columns of row y where a maximal dark run starts.
RunStarts(y) == {x \in 0..(Len(modules) - 1) : DarkAt(x, y) /\ ~DarkAt(x - 1, y)}

\* The commands written for row y.
RowCommands(y) == SelectSeq(DrawnCommands, LAMBDA c : c.M_y = y)

\* C21: every run written is at least one module wide, lies inside its row,
\* is dark throughout, and has a light module or the edge of the matrix on
\* its left and on its right; each row has as many runs written as it has
\* maximal dark runs.
RunsMaximal ==
    svg_file.exists =>
        /\ \A i \in 1..Len(DrawnCommands) :
               /\ DrawnCommands[i].h >= 1
               /\ DrawnCommands[i].M_y \in 0..(Len(modules) - 1)
               /\ DrawnCommands[i].M_x >= 0
               /\ DrawnCommands[i].M_x + DrawnCommands[i].h <= Len(modules)
               /\ \A k \in 0..(DrawnCommands[i].h - 1) :
                      DarkAt(DrawnCommands[i].M_x + k, DrawnCommands[i].M_y)
               /\ ~DarkAt(DrawnCommands[i].M_x - 1, DrawnCommands[i].M_y)
               /\ ~DarkAt(DrawnCommands[i].M_x + DrawnCommands[i].h, DrawnCommands[i].M_y)
        /\ \A y \in 0..(Len(modules) - 1) :
               Len(RowCommands(y)) = Cardinality(RunStarts(y))

\* A matrix with a row of two runs, a row that is one run from edge to edge
\* and a row with a run of two modules ending at the right edge.
RunsMaximalWitness ==
    /\ svg_file.exists
    /\ modules = <<<<TRUE, FALSE, TRUE>>, <<TRUE, TRUE, TRUE>>, <<FALSE, TRUE, TRUE>>>>
    /\ Len(RowCommands(0)) = 2
    /\ RowCommands(1) = <<path_command(0, 1, 3)>>
    /\ RowCommands(2) = <<path_command(1, 2, 2)>>

\* C22: of two commands that follow each other the second is in a later
\* row, or in the same row further right; the path element holds one command
\* for each maximal run, "M x,y h w v 1 h -w z", in that order.
RowMajorOrder ==
    (svg_file.exists /\ DarkCells # {}) =>
        /\ \A i \in 1..(Len(DrawnCommands) - 1) :
               \/ DrawnCommands[i].M_y < DrawnCommands[i + 1].M_y
               \/ /\ DrawnCommands[i].M_y = DrawnCommands[i + 1].M_y
                  /\ DrawnCommands[i].M_x < DrawnCommands[i + 1].M_x
        /\ svg_file.doc.children[2].d = DrawnCommands
        /\ {<<DrawnCommands[i].M_x, DrawnCommands[i].M_y>> : i \in 1..Len(DrawnCommands)}
               = {<<x, y>> \in (0..(Len(modules) - 1)) \X (0..(Len(modules) - 1)) :
                      x \in RunStarts(y)}
        /\ \A i \in 1..Len(DrawnCommands) :
               DrawnCommands[i] =
                   path_command(DrawnCommands[i].M_x, DrawnCommands[i].M_y,
                                run_end(modules[DrawnCommands[i].M_y + 1],
                                        DrawnCommands[i].M_x) - DrawnCommands[i].M_x)

\* Two runs in the first row, then one in the second, then one in the third
\* that starts left of the one before it.
RowMajorOrderWitness ==
    /\ svg_file.exists
    /\ modules = <<<<TRUE, FALSE, TRUE>>, <<FALSE, TRUE, TRUE>>, <<TRUE, FALSE, FALSE>>>>
    /\ svg_file.doc.children[2].d =
           <<path_command(0, 0, 1), path_command(2, 0, 1),
             path_command(1, 1, 2), path_command(0, 2, 1)>>


(***************************************************************************)
(* More properties of the quality check                                    *)
(***************************************************************************)

\* The places <<row, column>> of the picture on its top or bottom row or its
\* left or right column.
BorderPlaces ==
    {<<r, c>> \in (1..Len(image.pixels)) \X (1..Len(image.pixels[1])) :
        r \in {1, Len(image.pixels)} \/ c \in {1, Len(image.pixels[1])}}

\* The intensity of the pixel at a place after the conversion to grey.
GrayAt(place) == to_gray(image.mode, image.pixels[place[1]][place[2]])

\* C23: the quiet zone is present exactly when every pixel of the top row,
\* bottom row, left column and right column is brighter than 230; one border
\* pixel at 230 or less, light or not, makes it missing, and no pixel off the
\* border has a say.
QuietZoneBorderOnly ==
    q_pc = "assessed" =>
        /\ report.quiet_zone_present <=> \A place \in BorderPlaces : GrayAt(place) > 230
        /\ (\E place \in BorderPlaces : GrayAt(place) <= 230) => ~report.quiet_zone_present

\* A white picture with one border pixel at 230, which counts as light: no
\* dark pixel, and the quiet zone is missing.
QuietZoneBorderOnlyWitness ==
    /\ q_pc = "assessed"
    /\ image = Blot("L", 3, 3, <<255>>, 1, 2, <<230>>)
    /\ report.data_density.num = 0
    /\ ~report.quiet_zone_present


\* C30: the data density is a share between 0 and 1, the readability score
\* is 100 - 80 * data density and lies between 20 and 100, so never outside
\* 0 to 100.
ScoreInRange ==
    q_pc = "assessed" =>
        /\ report.data_density.den > 0
        /\ report.data_density.num >= 0
        /\ report.data_density.num <= report.data_density.den
        /\ report.readability_score.den = report.data_density.den
        /\ report.readability_score.num =
               100 * report.data_density.den - 80 * report.data_density.num
        /\ report.readability_score.num >= 20 * report.readability_score.den
        /\ report.readability_score.num <= 100 * report.readability_score.den

\* Eight dark pixels of nine: density 8/9, score 100 - 640/9 = 260/9.
ScoreInRangeWitness ==
    /\ q_pc = "assessed"
    /\ image = Blot("L", 3, 3, <<127>>, 2, 2, <<128>>)
    /\ report.data_density = [num |-> 8, den |-> 9]
    /\ report.readability_score = [num |-> 260, den |-> 9]


\* C24: once the document is written the pipeline reaches its end, the
\* success or an error reported, whatever the svgo process does.
MinifierCannotBlock ==
    (svg_pc = "written") ~> (svg_pc \in {"saved", "failed"} /\ dialog \in {"Success", "Error"})


(***************************************************************************)
(* Properties of the handlers of gui.py                                    *)
(***************************************************************************)

\* decode_qr_image reports not found: the file is no picture or holds no
\* code.
NotFound == ~gui_in.picture.readable \/ gui_in.picture.codes = << >>

\* C25: when the detection step reports not found, decompress_data is not
\* called, the display keeps the text it had, and an error box is shown.
NotFoundSkipsCodec ==
    (gui_pc = "done" /\ gui_out.handler = "decode_qr" /\ gui_in.chosen /\ NotFound) =>
        /\ gui_out.codec_calls = 0
        /\ display = gui_out.before
        /\ gui_out.dialog = "Error"

\* A picture without a code after one whose code was shown: the display
\* still holds the earlier text.
NotFoundSkipsCodecWitness ==
    /\ gui_pc = "done"
    /\ gui_out.handler = "decode_qr"
    /\ gui_in.chosen
    /\ gui_in.picture = [readable |-> TRUE, codes |-> << >>]
    /\ gui_out.codec_calls = 0
    /\ gui_out.dialog = "Error"
    /\ display = DecodedDataLabel \o <<104, 101, 108, 108, 111>>


\* The handler of the single code ran to its end on a file with a text.
Generated ==
    /\ gui_pc = "done"
    /\ gui_out.handler = "generate_qr"
    /\ gui_in.env.chosen
    /\ strip(gui_in.env.text) # << >>

\* The batch ran to its end, or was ended by an exception.
BatchDone == gui_pc = "done" /\ gui_out.handler = "batch_generate_qr"

\* The passes of the loop that wrote a picture.
SavedPasses == {k \in 1..Len(gui_out.passes) : gui_out.passes[k].result = "saved"}

PlainTextFallbackBuilds ==
    (/\ Generated
     /\ gui_in.st.compression = "cbor" \/ gui_in.st.extract_essential
     /\ ~json_loads(strip(gui_in.env.text)).ok)
        => /\ gui_out.dialogs # << >>
           /\ gui_out.dialogs[1] = "Warning"
           /\ gui_out.data = prefixed(strip(gui_in.env.text), gui_in.st)
           /\ gui_out.processed.kind = "str"
           /\ gui_out.version # 0

\* C28: with the automatic version, the version given to the qrcode library
\* is the one the selector returns for the string process_data returned at
\* the level the symbol is built with, so the table's capacity at that
\* version holds the string unless the version is 40.
VersionFitsSymbol ==
    (Generated /\ gui_in.st.auto_version /\ gui_out.version # 0) =>
        /\ gui_out.version = version_for(gui_out.processed.val, gui_out.level)
        /\ \/ gui_out.version = 40
           \/ Len(utf8_encode(gui_out.processed.val))
                  <= capacities(gui_out.level)[gui_out.version]

\* C29: every file of the batch is passed through the loop whatever happened
\* to the others, no two files write the same picture, and the count is the
\* number of pictures written.
BatchIndependent ==
    BatchDone =>
        /\ Len(gui_out.passes) = Len(gui_out.files)
        /\ \A i, j \in SavedPasses :
               i # j => gui_out.passes[i].name # gui_out.passes[j].name
        /\ gui_out.count = Cardinality(gui_out.pictures)


=============================================================================
